---- MODULE Spec2Model ----
(***************************************************************************)
(* State-machine model of contracts/AutoEcuFHE.sol: the encrypted CAN      *)
(* message store, its decryption-request / callback workflow against the   *)
(* FHE decryption oracle, and the per-ECU aggregate counters.              *)
(*                                                                         *)
(* Every public state-changing function of the contract is one action.  A  *)
(* call either commits the storage its body computed or reverts; a         *)
(* reverted call leaves no trace (EVM transaction semantics), so it is a   *)
(* stuttering step, and what a call would answer in a state is read off    *)
(* the function's operator.  The FHE library is an external collaborator:  *)
(* a ciphertext is an opaque value carrying a hidden plaintext, the oracle *)
(* numbers the decryption requests, and a proof is accepted only when it   *)
(* attests the cleartext of the request it names.                          *)
(***************************************************************************)
EXTENDS Integers, Sequences, FiniteSets, TLC

\* ------------------------------------------------------------------ bounds
\* submitEncryptedCanMessage is called at most MaxMessages times
MaxMessages == 2
\* the oracle is asked for at most MaxRequests decryptions
MaxRequests == 2

\* ------------------------------------------------------------- value domains
\* keccak256(abi.encodePacked(s)) read as a uint256: injective on the strings
\* used, never 0 and never a message id.
keccak256(s) ==
    CASE s = ""           -> 1001
      [] s = "ECU_A"      -> 1002
      [] s = "ECU_B"      -> 1003
      [] s = "SET_TORQUE" -> 1004
      [] s = "BRAKE"      -> 1005
      [] OTHER            -> 1006

bytes32ToUint(b) == b

\* the ECU names a caller may pass or a cleartext may carry
EcuIds == {"", "ECU_A", "ECU_B"}

\* the (command, sourceEcu, targetEcu) triples hidden behind submitted handles
SubmittedTriples ==
    { <<"SET_TORQUE", "ECU_A", "ECU_B">>,
      <<"BRAKE", "ECU_B", "ECU_A">> }
\* and the triples a callback payload may carry
CleartextTriples == SubmittedTriples \cup { <<"", "", "">> }

\* keys of the uint256-keyed mappings that any call can touch: the message ids
\* and the ECU-name hashes that requestEcuStatsDecryption stores as "ids"
MessageIds == 0 .. MaxMessages
Keys == MessageIds \cup { bytes32ToUint(keccak256(e)) : e \in EcuIds }
RequestIds == 0 .. MaxRequests

\* --------------------------------------------------------- FHE ciphertexts
\* An euint32 is an opaque handle; the model keeps the plaintext it hides.
\* The zero handle (a storage slot never written) is not initialised and
\* stands for the zero value.  Counters stay far below 2^32 within the
\* bounds, so FHE.add never wraps.
NoHandle == [init |-> FALSE, val |-> ""]
NoCounter == [init |-> FALSE, val |-> 0]
Encrypt(v) == [init |-> TRUE, val |-> v]
asEuint32(v) == [init |-> TRUE, val |-> v]
isInitialized(ct) == ct.init
add(a, b) == [init |-> TRUE, val |-> a.val + b.val]
toBytes32(ct) == ct

\* ------------------------------------------------------------ abi encoding
\* A callback payload is abi.encode(string,string,string) or
\* abi.encode(uint32).  Decoding the one-word uint32 payload as three strings
\* reverts.
AbiEncodeStrings(t) == [kind |-> "strings", val |-> t]
AbiEncodeUint32(n) == [kind |-> "uint32", val |-> <<n>>]
CanDecodeStrings(p) == p.kind = "strings"
AbiDecodeStrings(p) == p.val

\* ------------------------------------------------------------------- state
VARIABLES
    messageCount,        \* uint256 public messageCount
    encryptedMessages,   \* mapping(uint256 => EncryptedCanMessage)
    decryptedMessages,   \* mapping(uint256 => DecryptedCanMessage)
    encryptedEcuStats,   \* mapping(string => euint32)
    ecuList,             \* string[]
    requestToMessageId,  \* mapping(uint256 => uint256)
    events,              \* the event log, by the events' indexed id topic
    decryptionRequests,  \* the oracle's requests; request id = index - 1
    blockTimestamp,      \* block.timestamp of the latest block
    lastCall,            \* the latest call that went through
    \* the dashboard (frontend/web/src/App.tsx) and the key-value store it uses
    dataKeys,            \* the bytes stored under "firmware_keys"
    dataFirmware,        \* the bytes stored under "firmware_<id>", by id
    provider,            \* useState provider: is a wallet connected
    firmwares,           \* useState firmwares: the displayed list
    transactionStatus,   \* useState transactionStatus: the status banner
    invocations,         \* the upload / verify / reject calls made so far
    clients              \* the pages open on the same store, by session

\* the ledger contract with its oracle
ledger ==
    << messageCount, encryptedMessages, decryptedMessages, encryptedEcuStats,
       ecuList, requestToMessageId, events, decryptionRequests, blockTimestamp,
       lastCall >>
\* the dashboard with its store
frontend ==
    << dataKeys, dataFirmware, provider, firmwares, transactionStatus,
       invocations, clients >>
vars == << ledger, frontend >>

\* Solidity's zero values of the two structs
EmptyEncrypted ==
    [ id |-> 0, encryptedCommand |-> NoHandle, encryptedSourceEcu |-> NoHandle,
      encryptedTargetEcu |-> NoHandle, timestamp |-> 0 ]
EmptyDecrypted ==
    [ command |-> "", sourceEcu |-> "", targetEcu |-> "", isVerified |-> FALSE ]

\* The storage a call works on: the contract's own storage, its event log and
\* the oracle's request table (all rolled back together when the call reverts).
World ==
    [ messageCount |-> messageCount,
      encryptedMessages |-> encryptedMessages,
      decryptedMessages |-> decryptedMessages,
      encryptedEcuStats |-> encryptedEcuStats,
      ecuList |-> ecuList,
      requestToMessageId |-> requestToMessageId,
      events |-> events,
      decryptionRequests |-> decryptionRequests ]

\* ------------------------------------------------ dashboard: stored values
\* the upload / verify / reject calls the user makes are at most MaxInvocations
MaxInvocations == 2

\* the firmware ids the store may hold and the upload may draw
FirmwareIds == {"fw1", "fw2", "fw3"}
\* Math.floor(Date.now() / 1000) of an upload, or the timestamp of a stored blob
Timestamps == {1, 2}

\* The bytes under "firmware_keys": nothing, text that is not JSON, or the
\* JSON text of an array of ids.
NoKeysBytes == [kind |-> "empty", ids |-> << >>]
GarbageKeysBytes == [kind |-> "garbage", ids |-> << >>]
\* ethers.toUtf8Bytes(JSON.stringify(keys))
StringifyKeys(keys) == [kind |-> "json", ids |-> keys]

\* The bytes under "firmware_<id>": nothing, text that is not JSON, or the
\* JSON text of a firmware object.
NoFirmwareData ==
    [ firmwareHash |-> "", timestamp |-> 0, manufacturer |-> "", ecuModel |-> "",
      status |-> "", securityLevel |-> 0 ]
NoBytes == [kind |-> "empty", data |-> NoFirmwareData]
GarbageBytes == [kind |-> "garbage", data |-> NoFirmwareData]
\* ethers.toUtf8Bytes(JSON.stringify(firmwareData))
Stringify(firmwareData) == [kind |-> "json", data |-> firmwareData]

\* bytes.length
BytesLength(bytes) == IF bytes.kind = "empty" THEN 0 ELSE 1
\* JSON.parse(ethers.toUtf8String(bytes)) throws on text that is not JSON
ParseThrows(bytes) == bytes.kind # "json"
ParseKeys(bytes) == bytes.ids
Parse(bytes) == bytes.data

\* firmware objects found in the store: an upload's object, one written
\* without status and security level, one already verified
StoredFirmwareData ==
    { [ firmwareHash |-> "0xf00d", timestamp |-> 1, manufacturer |-> "0xacme",
        ecuModel |-> "ECM-1", status |-> "pending", securityLevel |-> 2 ],
      [ firmwareHash |-> "0xf00d", timestamp |-> 2, manufacturer |-> "0xacme",
        ecuModel |-> "ECM-1", status |-> "", securityLevel |-> 0 ],
      [ firmwareHash |-> "0xf00d", timestamp |-> 2, manufacturer |-> "0xacme",
        ecuModel |-> "ECM-1", status |-> "verified", securityLevel |-> 2 ] }

\* the upload form (newFirmwareData) as the user filled it
newFirmwareData ==
    [ manufacturer |-> "0xacme", ecuModel |-> "ECM-1", firmwareHash |-> "0xf00d",
      securityLevel |-> 1 ]

\* The sessions of the dashboard open on the same store (two tabs or devices
\* of one account).
Clients == {"c1", "c2"}

\* no action of a session is running: no op, and none of the locals of
\* uploadFirmware (firmwareId, keys) or verifyFirmware / rejectFirmware
\* (firmwareId, firmwareData)
NoAction ==
    [ op |-> "none", pc |-> "idle", firmwareId |-> "", keys |-> << >>,
      firmwareData |-> NoFirmwareData ]

\* a session as the page opens: an empty list, isRefreshing false, no
\* loadFirmwares call and no action in progress, no action started and
\* nothing uploaded yet
IdleClient ==
    [ firmwares |-> << >>, isRefreshing |-> FALSE, refresh |-> "idle",
      action |-> NoAction, started |-> 0, uploaded |-> {} ]

Init ==
    /\ messageCount = 0
    /\ encryptedMessages = [k \in Keys |-> EmptyEncrypted]
    /\ decryptedMessages = [k \in Keys |-> EmptyDecrypted]
    /\ encryptedEcuStats = [e \in EcuIds |-> NoCounter]
    /\ ecuList = << >>
    /\ requestToMessageId = [r \in RequestIds |-> 0]
    /\ events = [k \in Keys |-> << >>]
    /\ decryptionRequests = << >>
    /\ blockTimestamp = 0
    /\ lastCall = [op |-> "constructor", arg |-> 0]
    \* the page before its first load, on an empty store, no wallet connected
    /\ dataKeys = NoKeysBytes
    /\ dataFirmware = [id \in FirmwareIds |-> NoBytes]
    /\ provider = FALSE
    /\ firmwares = << >>
    /\ transactionStatus = [visible |-> FALSE, status |-> "pending"]
    /\ invocations = << >>
    /\ clients = [c \in Clients |-> IdleClient]

\* ------------------------------------------------------- call outcomes
\* a call that returns, with the storage it leaves
Ok(w) == [result |-> "ok", world |-> w]
\* a call that reverts: the storage is the one the call started from
Revert(w, reason) == [result |-> reason, world |-> w]

\* A transaction's storage writes, and the record of the call when it went
\* through.
Commit(out, call) ==
    /\ messageCount' = out.world.messageCount
    /\ encryptedMessages' = out.world.encryptedMessages
    /\ decryptedMessages' = out.world.decryptedMessages
    /\ encryptedEcuStats' = out.world.encryptedEcuStats
    /\ ecuList' = out.world.ecuList
    /\ requestToMessageId' = out.world.requestToMessageId
    /\ events' = out.world.events
    /\ decryptionRequests' = out.world.decryptionRequests
    /\ lastCall' = IF out.result = "ok" THEN call ELSE lastCall

\* ------------------------------------------------- submitEncryptedCanMessage
\* variant: the record is stored under the counter's value before the increment
submitEncryptedCanMessage_StaleId(w, encryptedCommand, encryptedSourceEcu, encryptedTargetEcu, now) ==
    LET newId == w.messageCount
    IN  Ok([ w EXCEPT
            !.messageCount = w.messageCount + 1,
            !.encryptedMessages[newId] =
                [ id |-> newId,
                  encryptedCommand |-> encryptedCommand,
                  encryptedSourceEcu |-> encryptedSourceEcu,
                  encryptedTargetEcu |-> encryptedTargetEcu,
                  timestamp |-> now ],
            !.decryptedMessages[newId] =
                [ command |-> "", sourceEcu |-> "", targetEcu |-> "",
                  isVerified |-> FALSE ],
            !.events[newId] = Append(w.events[newId], <<"MessageReceived", now>>) ])

\* variant: the decrypted record of the new id is left as it is
submitEncryptedCanMessage_KeepDecrypted(w, encryptedCommand, encryptedSourceEcu, encryptedTargetEcu, now) ==
    LET newId == w.messageCount + 1
    IN  Ok([ w EXCEPT
            !.messageCount = newId,
            !.encryptedMessages[newId] =
                [ id |-> newId,
                  encryptedCommand |-> encryptedCommand,
                  encryptedSourceEcu |-> encryptedSourceEcu,
                  encryptedTargetEcu |-> encryptedTargetEcu,
                  timestamp |-> now ],
            !.events[newId] = Append(w.events[newId], <<"MessageReceived", now>>) ])

submitEncryptedCanMessage(w, encryptedCommand, encryptedSourceEcu, encryptedTargetEcu, now) ==
    LET newId == w.messageCount + 1
    IN  Ok([ w EXCEPT
            !.messageCount = newId,
            !.encryptedMessages[newId] =
                [ id |-> newId,
                  encryptedCommand |-> encryptedCommand,
                  encryptedSourceEcu |-> encryptedSourceEcu,
                  encryptedTargetEcu |-> encryptedTargetEcu,
                  timestamp |-> now ],
            !.decryptedMessages[newId] =
                [ command |-> "", sourceEcu |-> "", targetEcu |-> "",
                  isVerified |-> FALSE ],
            !.events[newId] = Append(w.events[newId], <<"MessageReceived", now>>) ])

SubmitEncryptedCanMessage ==
    /\ messageCount < MaxMessages
    /\ \E t \in SubmittedTriples :
        LET now == blockTimestamp + 1
            out == submitEncryptedCanMessage(World, Encrypt(t[1]), Encrypt(t[2]),
                                             Encrypt(t[3]), now)
        IN  /\ Commit(out, [op |-> "submitEncryptedCanMessage", arg |-> t])
            /\ blockTimestamp' = now
    /\ UNCHANGED frontend

\* ------------------------------------------------------ decryption oracle
\* FHE.requestDecryption: the oracle numbers the requests 0, 1, 2, ... and
\* keeps the handles and the callback selector of each.
requestDecryption(w, ciphertexts, selector) ==
    [ reqId |-> Len(w.decryptionRequests),
      world |-> [ w EXCEPT !.decryptionRequests =
                    Append(w.decryptionRequests,
                           [ciphertexts |-> ciphertexts, selector |-> selector]) ] ]

\* The cleartext payload the oracle attests for a list of handles: the
\* plaintexts they hide (three strings for a message, one counter value for
\* an aggregate).
Decryption(ciphertexts) ==
    IF Len(ciphertexts) = 3
    THEN AbiEncodeStrings(<< ciphertexts[1].val, ciphertexts[2].val,
                             ciphertexts[3].val >>)
    ELSE AbiEncodeUint32(ciphertexts[1].val)

\* FHE.checkSignatures: passes only for the oracle's own signatures ("kms")
\* over the cleartexts of the request the callback names.
checkSignatures(w, requestId, cleartexts, proof) ==
    /\ proof = "kms"
    /\ requestId < Len(w.decryptionRequests)
    /\ cleartexts = Decryption(w.decryptionRequests[requestId + 1].ciphertexts)

Proofs == {"kms", "forged"}

\* The payloads a callback may be called with: any triple of strings, a
\* counter value, and whatever the oracle attests for the requests so far.
Payloads ==
    { AbiEncodeStrings(t) : t \in CleartextTriples }
        \cup { AbiEncodeUint32(1) }
        \cup { Decryption(decryptionRequests[i].ciphertexts) :
                 i \in 1 .. Len(decryptionRequests) }

\* ------------------------------------------------ requestCommandVerification
\* variant: the "Already verified" guard is missing
requestCommandVerification_NoGuard(w, messageId) ==
    LET msg == w.encryptedMessages[messageId]
        ciphertexts == << toBytes32(msg.encryptedCommand),
                          toBytes32(msg.encryptedSourceEcu),
                          toBytes32(msg.encryptedTargetEcu) >>
        req == requestDecryption(w, ciphertexts, "verifyCommand")
    IN  Ok([ req.world EXCEPT
                !.requestToMessageId[req.reqId] = messageId,
                !.events[messageId] =
                    Append(w.events[messageId], <<"VerificationRequested">>) ])

\* variant: the request itself marks the message verified
requestCommandVerification_MarksVerified(w, messageId) ==
    LET msg == w.encryptedMessages[messageId]
    IN  IF w.decryptedMessages[messageId].isVerified
        THEN Revert(w, "Already verified")
        ELSE LET ciphertexts == << toBytes32(msg.encryptedCommand),
                                   toBytes32(msg.encryptedSourceEcu),
                                   toBytes32(msg.encryptedTargetEcu) >>
                 req == requestDecryption(w, ciphertexts, "verifyCommand")
             IN  Ok([ req.world EXCEPT
                        !.requestToMessageId[req.reqId] = messageId,
                        !.decryptedMessages[messageId].isVerified = TRUE,
                        !.events[messageId] =
                            Append(w.events[messageId], <<"VerificationRequested">>) ])

requestCommandVerification(w, messageId) ==
    LET msg == w.encryptedMessages[messageId]
    IN  IF w.decryptedMessages[messageId].isVerified
        THEN Revert(w, "Already verified")
        ELSE LET ciphertexts == << toBytes32(msg.encryptedCommand),
                                   toBytes32(msg.encryptedSourceEcu),
                                   toBytes32(msg.encryptedTargetEcu) >>
                 req == requestDecryption(w, ciphertexts, "verifyCommand")
             IN  Ok([ req.world EXCEPT
                        !.requestToMessageId[req.reqId] = messageId,
                        !.events[messageId] =
                            Append(w.events[messageId], <<"VerificationRequested">>) ])

RequestCommandVerification ==
    /\ \E messageId \in MessageIds :
        /\ \/ Len(decryptionRequests) < MaxRequests
           \/ decryptedMessages[messageId].isVerified
        /\ Commit(requestCommandVerification(World, messageId),
                  [op |-> "requestCommandVerification", arg |-> messageId])
    /\ UNCHANGED << blockTimestamp, frontend >>

\* ------------------------------------------------------------ verifyCommand
\* dMsg.command = ...; dMsg.isVerified = true
\* variant: the cleartext is stored but the flag is not set
storeDecrypted_FlagNotSet(w, messageId, t) ==
    [ w EXCEPT !.decryptedMessages[messageId] =
        [ command |-> t[1], sourceEcu |-> t[2], targetEcu |-> t[3],
          isVerified |-> FALSE ] ]

storeDecrypted(w, messageId, t) ==
    [ w EXCEPT !.decryptedMessages[messageId] =
        [ command |-> t[1], sourceEcu |-> t[2], targetEcu |-> t[3],
          isVerified |-> TRUE ] ]

\* variant: the name is pushed to the registry on every verified message
countForEcu_AlwaysPush(w, sourceEcu) ==
    LET w1 == IF isInitialized(w.encryptedEcuStats[sourceEcu]) = FALSE
              THEN [ w EXCEPT !.encryptedEcuStats[sourceEcu] = asEuint32(0) ]
              ELSE w
    IN  [ w1 EXCEPT !.encryptedEcuStats[sourceEcu] =
                        add(w1.encryptedEcuStats[sourceEcu], asEuint32(1)),
                    !.ecuList = Append(w1.ecuList, sourceEcu) ]

\* variant: the counter is created but the name is not registered
countForEcu_NoPush(w, sourceEcu) ==
    LET w1 == IF isInitialized(w.encryptedEcuStats[sourceEcu]) = FALSE
              THEN [ w EXCEPT !.encryptedEcuStats[sourceEcu] = asEuint32(0) ]
              ELSE w
    IN  [ w1 EXCEPT !.encryptedEcuStats[sourceEcu] =
            add(w1.encryptedEcuStats[sourceEcu], asEuint32(1)) ]

\* the per-ECU counter: created as 0 and registered when absent, then incremented
countForEcu(w, sourceEcu) ==
    LET w1 == IF isInitialized(w.encryptedEcuStats[sourceEcu]) = FALSE
              THEN [ w EXCEPT !.encryptedEcuStats[sourceEcu] = asEuint32(0),
                              !.ecuList = Append(w.ecuList, sourceEcu) ]
              ELSE w
    IN  [ w1 EXCEPT !.encryptedEcuStats[sourceEcu] =
            add(w1.encryptedEcuStats[sourceEcu], asEuint32(1)) ]

emitMessageVerified(w, messageId) ==
    [ w EXCEPT !.events[messageId] = Append(w.events[messageId], <<"MessageVerified">>) ]

\* variant: the proof is checked before the "Already verified" guard
verifyCommand_ProofFirst(w, requestId, cleartexts, proof) ==
    LET messageId == w.requestToMessageId[requestId]
        dMsg == w.decryptedMessages[messageId]
    IN  IF messageId = 0 THEN Revert(w, "Invalid request")
        ELSE IF ~checkSignatures(w, requestId, cleartexts, proof)
        THEN Revert(w, "InvalidProof")
        ELSE IF dMsg.isVerified THEN Revert(w, "Already verified")
        ELSE IF ~CanDecodeStrings(cleartexts) THEN Revert(w, "abi.decode")
        ELSE
        LET t == AbiDecodeStrings(cleartexts)
            w1 == storeDecrypted(w, messageId, t)
            w2 == countForEcu(w1, w1.decryptedMessages[messageId].sourceEcu)
        IN  Ok(emitMessageVerified(w2, messageId))

\* variant: the record is written before the proof is checked, and a rejected
\* proof ends the call without undoing the write
verifyCommand_LateProofCheck(w, requestId, cleartexts, proof) ==
    LET messageId == w.requestToMessageId[requestId]
        dMsg == w.decryptedMessages[messageId]
    IN  IF messageId = 0 THEN Revert(w, "Invalid request")
        ELSE IF dMsg.isVerified THEN Revert(w, "Already verified")
        ELSE IF ~CanDecodeStrings(cleartexts) THEN Revert(w, "abi.decode")
        ELSE
        LET t == AbiDecodeStrings(cleartexts)
            w1 == storeDecrypted(w, messageId, t)
            w2 == countForEcu(w1, w1.decryptedMessages[messageId].sourceEcu)
        IN  IF ~checkSignatures(w, requestId, cleartexts, proof)
            THEN [result |-> "InvalidProof", world |-> w1]
            ELSE Ok(emitMessageVerified(w2, messageId))

\* variant: the "Already verified" guard is missing
verifyCommand_NoVerifiedGuard(w, requestId, cleartexts, proof) ==
    LET messageId == w.requestToMessageId[requestId]
    IN  IF messageId = 0 THEN Revert(w, "Invalid request")
        ELSE IF ~checkSignatures(w, requestId, cleartexts, proof)
        THEN Revert(w, "InvalidProof")
        ELSE IF ~CanDecodeStrings(cleartexts) THEN Revert(w, "abi.decode")
        ELSE
        LET t == AbiDecodeStrings(cleartexts)
            w1 == storeDecrypted(w, messageId, t)
            w2 == countForEcu(w1, w1.decryptedMessages[messageId].sourceEcu)
        IN  Ok(emitMessageVerified(w2, messageId))

\* variant: the callback deletes the mapping of the request id it consumed
verifyCommand_ClearsRequest(w, requestId, cleartexts, proof) ==
    LET messageId == w.requestToMessageId[requestId]
        dMsg == w.decryptedMessages[messageId]
    IN  IF messageId = 0 THEN Revert(w, "Invalid request")
        ELSE IF dMsg.isVerified THEN Revert(w, "Already verified")
        ELSE IF ~checkSignatures(w, requestId, cleartexts, proof)
        THEN Revert(w, "InvalidProof")
        ELSE IF ~CanDecodeStrings(cleartexts) THEN Revert(w, "abi.decode")
        ELSE
        LET t == AbiDecodeStrings(cleartexts)
            w1 == storeDecrypted(w, messageId, t)
            w2 == countForEcu(w1, w1.decryptedMessages[messageId].sourceEcu)
            w3 == [w2 EXCEPT !.requestToMessageId[requestId] = 0]
        IN  Ok(emitMessageVerified(w3, messageId))

\* variant: the callback deletes the ciphertext record it has decrypted
verifyCommand_DeletesCiphertext(w, requestId, cleartexts, proof) ==
    LET messageId == w.requestToMessageId[requestId]
        dMsg == w.decryptedMessages[messageId]
    IN  IF messageId = 0 THEN Revert(w, "Invalid request")
        ELSE IF dMsg.isVerified THEN Revert(w, "Already verified")
        ELSE IF ~checkSignatures(w, requestId, cleartexts, proof)
        THEN Revert(w, "InvalidProof")
        ELSE IF ~CanDecodeStrings(cleartexts) THEN Revert(w, "abi.decode")
        ELSE
        LET t == AbiDecodeStrings(cleartexts)
            w1 == storeDecrypted(w, messageId, t)
            w2 == countForEcu(w1, w1.decryptedMessages[messageId].sourceEcu)
            w3 == [w2 EXCEPT !.encryptedMessages[messageId] = EmptyEncrypted]
        IN  Ok(emitMessageVerified(w3, messageId))

\* variant: the proof of the callback is not checked
verifyCommand_NoProofCheck(w, requestId, cleartexts, proof) ==
    LET messageId == w.requestToMessageId[requestId]
        dMsg == w.decryptedMessages[messageId]
    IN  IF messageId = 0 THEN Revert(w, "Invalid request")
        ELSE IF dMsg.isVerified THEN Revert(w, "Already verified")
        ELSE IF ~CanDecodeStrings(cleartexts) THEN Revert(w, "abi.decode")
        ELSE
        LET t == AbiDecodeStrings(cleartexts)
            w1 == storeDecrypted(w, messageId, t)
            w2 == countForEcu(w1, w1.decryptedMessages[messageId].sourceEcu)
        IN  Ok(emitMessageVerified(w2, messageId))

\* variant: the "Invalid request" guard is missing
verifyCommand_NoZeroCheck(w, requestId, cleartexts, proof) ==
    LET messageId == w.requestToMessageId[requestId]
        dMsg == w.decryptedMessages[messageId]
    IN  IF dMsg.isVerified THEN Revert(w, "Already verified")
        ELSE IF ~checkSignatures(w, requestId, cleartexts, proof)
        THEN Revert(w, "InvalidProof")
        ELSE IF ~CanDecodeStrings(cleartexts) THEN Revert(w, "abi.decode")
        ELSE
        LET t == AbiDecodeStrings(cleartexts)
            w1 == storeDecrypted(w, messageId, t)
            w2 == countForEcu(w1, w1.decryptedMessages[messageId].sourceEcu)
        IN  Ok(emitMessageVerified(w2, messageId))

verifyCommand(w, requestId, cleartexts, proof) ==
    LET messageId == w.requestToMessageId[requestId]
        dMsg == w.decryptedMessages[messageId]
    IN  IF messageId = 0 THEN Revert(w, "Invalid request")
        ELSE IF dMsg.isVerified THEN Revert(w, "Already verified")
        ELSE IF ~checkSignatures(w, requestId, cleartexts, proof)
        THEN Revert(w, "InvalidProof")
        ELSE IF ~CanDecodeStrings(cleartexts) THEN Revert(w, "abi.decode")
        ELSE
        LET t == AbiDecodeStrings(cleartexts)
            w1 == storeDecrypted(w, messageId, t)
            w2 == countForEcu(w1, w1.decryptedMessages[messageId].sourceEcu)
        IN  Ok(emitMessageVerified(w2, messageId))

VerifyCommand ==
    /\ \E requestId \in RequestIds, cleartexts \in Payloads, proof \in Proofs :
        Commit(verifyCommand(World, requestId, cleartexts, proof),
               [ op |-> "verifyCommand", arg |-> requestId,
                 cleartexts |-> cleartexts ])
    /\ UNCHANGED << blockTimestamp, frontend >>

\* ------------------------------------------------------ getDecryptedMessage
getDecryptedMessage(w, messageId) ==
    LET m == w.decryptedMessages[messageId]
    IN  << m.command, m.sourceEcu, m.targetEcu, m.isVerified >>

getEncryptedEcuStats(w, ecuId) == w.encryptedEcuStats[ecuId]

\* ------------------------------------------------ requestEcuStatsDecryption
\* variant: the "ECU not found" guard is missing
requestEcuStatsDecryption_NoGuard(w, ecuId) ==
    LET stats == w.encryptedEcuStats[ecuId]
        req == requestDecryption(w, << toBytes32(stats) >>, "decryptEcuStats")
    IN  Ok([ req.world EXCEPT !.requestToMessageId[req.reqId] =
                bytes32ToUint(keccak256(ecuId)) ])

requestEcuStatsDecryption(w, ecuId) ==
    LET stats == w.encryptedEcuStats[ecuId]
    IN  IF ~isInitialized(stats) THEN Revert(w, "ECU not found")
        ELSE LET req == requestDecryption(w, << toBytes32(stats) >>, "decryptEcuStats")
             IN  Ok([ req.world EXCEPT !.requestToMessageId[req.reqId] =
                        bytes32ToUint(keccak256(ecuId)) ])

RequestEcuStatsDecryption ==
    /\ \E ecuId \in EcuIds :
        /\ \/ Len(decryptionRequests) < MaxRequests
           \/ ~isInitialized(encryptedEcuStats[ecuId])
        /\ Commit(requestEcuStatsDecryption(World, ecuId),
                  [op |-> "requestEcuStatsDecryption", arg |-> ecuId])
    /\ UNCHANGED << blockTimestamp, frontend >>

\* ---------------------------------------------------------- decryptEcuStats
\* getEcuFromHash: the first registry name whose hash matches, if any
EcuIndexOfHash(w, hash) ==
    { i \in 1 .. Len(w.ecuList) : bytes32ToUint(keccak256(w.ecuList[i])) = hash }

\* variant: a callback that went through clears the mapping of its request id
decryptEcuStats_ClearsRequest(w, requestId, cleartexts, proof) ==
    LET ecuHash == w.requestToMessageId[requestId]
    IN  IF EcuIndexOfHash(w, ecuHash) = {} THEN Revert(w, "ECU not found")
        ELSE IF ~checkSignatures(w, requestId, cleartexts, proof)
        THEN Revert(w, "InvalidProof")
        ELSE Ok([ w EXCEPT !.requestToMessageId[requestId] = 0 ])

decryptEcuStats(w, requestId, cleartexts, proof) ==
    LET ecuHash == w.requestToMessageId[requestId]
    IN  IF EcuIndexOfHash(w, ecuHash) = {} THEN Revert(w, "ECU not found")
        ELSE IF ~checkSignatures(w, requestId, cleartexts, proof)
        THEN Revert(w, "InvalidProof")
        ELSE Ok(w)

DecryptEcuStats ==
    /\ \E requestId \in RequestIds, cleartexts \in Payloads, proof \in Proofs :
        Commit(decryptEcuStats(World, requestId, cleartexts, proof),
               [ op |-> "decryptEcuStats", arg |-> requestId,
                 cleartexts |-> cleartexts ])
    /\ UNCHANGED << blockTimestamp, frontend >>

\* ------------------------------------------------------------ view functions
\* validateCommand: the simplified validation accepts every command
validateCommand(command, sourceEcu, targetEcu) == TRUE

\* the loop of calculateEcuTrustScore from index i on, with the two local
\* counters it has reached
RECURSIVE trustScoreLoop(_, _, _, _, _)
trustScoreLoop(w, ecuId, i, validCount, totalCount) ==
    IF i > w.messageCount
    THEN [validCount |-> validCount, totalCount |-> totalCount]
    ELSE LET d == w.decryptedMessages[i]
         IN  IF d.isVerified /\ keccak256(d.sourceEcu) = keccak256(ecuId)
             THEN trustScoreLoop(w, ecuId, i + 1,
                      IF validateCommand(d.command, d.sourceEcu, d.targetEcu)
                      THEN validCount + 1 ELSE validCount,
                      totalCount + 1)
             ELSE trustScoreLoop(w, ecuId, i + 1, validCount, totalCount)

\* variant: no special case for an ECU without verified messages
calculateEcuTrustScore_NoEmptyCase(w, ecuId) ==
    LET c == trustScoreLoop(w, ecuId, 1, 0, 0)
    IN  IF c.totalCount > 0 THEN (c.validCount * 100) \div c.totalCount ELSE 0

calculateEcuTrustScore(w, ecuId) ==
    LET c == trustScoreLoop(w, ecuId, 1, 0, 0)
    IN  IF c.totalCount > 0 THEN (c.validCount * 100) \div c.totalCount ELSE 100

\* detectAnomalousCommands: the inner loop over knownSafeCommands, from index
\* j (1-based here), comparing by hash
RECURSIVE isSafeLoop(_, _, _)
isSafeLoop(command, knownSafeCommands, j) ==
    IF j > Len(knownSafeCommands) THEN FALSE
    ELSE IF keccak256(command) = keccak256(knownSafeCommands[j]) THEN TRUE
    ELSE isSafeLoop(command, knownSafeCommands, j + 1)

\* the outer loop over the message ids i..messageCount
RECURSIVE anomalyLoop(_, _, _, _)
anomalyLoop(w, ecuId, knownSafeCommands, i) ==
    IF i > w.messageCount THEN FALSE
    ELSE IF /\ w.decryptedMessages[i].isVerified
            /\ keccak256(w.decryptedMessages[i].sourceEcu) = keccak256(ecuId)
            /\ ~isSafeLoop(w.decryptedMessages[i].command, knownSafeCommands, 1)
    THEN TRUE
    ELSE anomalyLoop(w, ecuId, knownSafeCommands, i + 1)

\* variant: the scan stops before the last message id
detectAnomalousCommands_SkipsLast(w, ecuId, knownSafeCommands) ==
    anomalyLoop([w EXCEPT !.messageCount = w.messageCount - 1],
                ecuId, knownSafeCommands, 1)

detectAnomalousCommands(w, ecuId, knownSafeCommands) ==
    anomalyLoop(w, ecuId, knownSafeCommands, 1)

Next ==
    \/ SubmitEncryptedCanMessage
    \/ RequestCommandVerification
    \/ VerifyCommand
    \/ RequestEcuStatsDecryption
    \/ DecryptEcuStats

Spec == Init /\ [][Next]_vars

\* =============================================================== dashboard
\* ------------------------------------------------------------ loadFirmwares
\* What the reads of one list load meet: whether the read-only binding was
\* obtained, what isAvailable() answers, whether the read of "firmware_keys"
\* throws, and the ids whose blob read throws.
AllLoadEnvs ==
    [ contract : BOOLEAN, isAvailable : BOOLEAN, keysThrow : BOOLEAN,
      throwing : SUBSET FirmwareIds ]
\* the ones the page's own loads are run with: all reads go through, the read
\* of one blob throws, the store is not available
LoadEnvs ==
    { [ contract |-> TRUE, isAvailable |-> TRUE, keysThrow |-> FALSE,
        throwing |-> {} ],
      [ contract |-> TRUE, isAvailable |-> TRUE, keysThrow |-> FALSE,
        throwing |-> {"fw1"} ],
      [ contract |-> TRUE, isAvailable |-> FALSE, keysThrow |-> FALSE,
        throwing |-> {} ] }
\* a load whose reads all go through
QuietLoad ==
    [ contract |-> TRUE, isAvailable |-> TRUE, keysThrow |-> FALSE,
      throwing |-> {} ]

\* the list entry built from a parsed blob
ListEntry(key, firmwareData) ==
    [ id |-> key,
      firmwareHash |-> firmwareData.firmwareHash,
      timestamp |-> firmwareData.timestamp,
      manufacturer |-> firmwareData.manufacturer,
      ecuModel |-> firmwareData.ecuModel,
      status |-> IF firmwareData.status = "" THEN "pending"
                 ELSE firmwareData.status,
      securityLevel |-> IF firmwareData.securityLevel = 0 THEN 1
                        ELSE firmwareData.securityLevel ]

\* variant of the loop: the first blob that cannot be read or parsed ends it
RECURSIVE loadLoop_StopAtBadRecord(_, _, _, _, _)
loadLoop_StopAtBadRecord(keys, i, blobs, throwing, list) ==
    IF i > Len(keys) THEN list
    ELSE LET key == keys[i]
             firmwareBytes == blobs[key]
         IN  IF key \in throwing THEN list
             ELSE IF BytesLength(firmwareBytes) = 0
             THEN loadLoop_StopAtBadRecord(keys, i + 1, blobs, throwing, list)
             ELSE IF ParseThrows(firmwareBytes) THEN list
             ELSE loadLoop_StopAtBadRecord(keys, i + 1, blobs, throwing,
                      Append(list, ListEntry(key, Parse(firmwareBytes))))

\* for (const key of keys) { ... }: a blob whose read throws, that is empty or
\* that does not parse is passed over
RECURSIVE loadLoop(_, _, _, _, _)
loadLoop(keys, i, blobs, throwing, list) ==
    IF i > Len(keys) THEN list
    ELSE LET key == keys[i]
             firmwareBytes == blobs[key]
         IN  IF key \in throwing
             THEN loadLoop(keys, i + 1, blobs, throwing, list)
             ELSE IF BytesLength(firmwareBytes) = 0
             THEN loadLoop(keys, i + 1, blobs, throwing, list)
             ELSE IF ParseThrows(firmwareBytes)
             THEN loadLoop(keys, i + 1, blobs, throwing, list)
             ELSE loadLoop(keys, i + 1, blobs, throwing,
                      Append(list, ListEntry(key, Parse(firmwareBytes))))

\* list.sort((a, b) => b.timestamp - a.timestamp): a stable sort, x goes
\* behind the entries that are not older than it
RECURSIVE insertByTimestamp(_, _)
insertByTimestamp(sorted, x) ==
    IF sorted = << >> THEN << x >>
    ELSE IF Head(sorted).timestamp - x.timestamp < 0
         THEN << x >> \o sorted
         ELSE << Head(sorted) >> \o insertByTimestamp(Tail(sorted), x)
RECURSIVE sortByTimestamp(_)
sortByTimestamp(list) ==
    IF list = << >> THEN << >>
    ELSE insertByTimestamp(sortByTimestamp(SubSeq(list, 1, Len(list) - 1)),
                           list[Len(list)])

\* loadFirmwares: the list it leaves displayed, `shown` being the one before
loadFirmwares(keysBytes, blobs, shown, env) ==
    IF ~env.contract THEN shown
    ELSE IF ~env.isAvailable THEN shown
    ELSE IF env.keysThrow THEN shown
    ELSE LET keys == IF BytesLength(keysBytes) > 0 /\ ~ParseThrows(keysBytes)
                     THEN ParseKeys(keysBytes) ELSE << >>
         IN  sortByTimestamp(loadLoop(keys, 1, blobs, env.throwing, << >>))

\* the refresh button, or the load on mount
LoadFirmwares ==
    /\ \E env \in LoadEnvs :
          firmwares' = loadFirmwares(dataKeys, dataFirmware, firmwares, env)
    /\ UNCHANGED << dataKeys, dataFirmware, provider, transactionStatus,
                    invocations, clients, ledger >>

\* ------------------------------------------------------------ store writes
\* Where a call into the wallet or the ledger throws during an action, if
\* anywhere: getting the signer binding, a read, the write of the blob, the
\* write of the index.
FailPoints == {"none", "signer", "getData", "setData", "setKeys"}

\* what an action leaves behind: how it ended and the store
Done(result, keysBytes, blobs) ==
    [result |-> result, dataKeys |-> keysBytes, dataFirmware |-> blobs]

\* uploadFirmware, from the try block on: writes the blob, then the index
uploadFirmware(keysBytes, blobs, firmwareId, now, failAt) ==
    LET firmwareData ==
            [ firmwareHash |-> newFirmwareData.firmwareHash,
              timestamp |-> now,
              manufacturer |-> newFirmwareData.manufacturer,
              ecuModel |-> newFirmwareData.ecuModel,
              status |-> "pending",
              securityLevel |-> newFirmwareData.securityLevel ]
        blobs1 == [blobs EXCEPT ![firmwareId] = Stringify(firmwareData)]
        keys == IF BytesLength(keysBytes) > 0 /\ ~ParseThrows(keysBytes)
                THEN ParseKeys(keysBytes) ELSE << >>
    IN  IF failAt = "signer" THEN Done("error", keysBytes, blobs)
        ELSE IF failAt = "setData" THEN Done("error", keysBytes, blobs)
        ELSE IF failAt = "getData" THEN Done("error", keysBytes, blobs1)
        ELSE IF failAt = "setKeys" THEN Done("error", keysBytes, blobs1)
        ELSE Done("success", StringifyKeys(Append(keys, firmwareId)), blobs1)

\* variant of the status rewrite: the blob is rebuilt from the form, not from
\* the stored object
rewriteStatus_FromForm(keysBytes, blobs, firmwareId, status, failAt) ==
    IF failAt = "signer" \/ failAt = "getData" THEN Done("error", keysBytes, blobs)
    ELSE IF BytesLength(blobs[firmwareId]) = 0 THEN Done("error", keysBytes, blobs)
    ELSE IF ParseThrows(blobs[firmwareId]) THEN Done("error", keysBytes, blobs)
    ELSE IF failAt = "setData" THEN Done("error", keysBytes, blobs)
    ELSE Done("success", keysBytes,
              [ blobs EXCEPT ![firmwareId] =
                  Stringify([ firmwareHash |-> newFirmwareData.firmwareHash,
                              timestamp |-> Parse(blobs[firmwareId]).timestamp,
                              manufacturer |-> newFirmwareData.manufacturer,
                              ecuModel |-> newFirmwareData.ecuModel,
                              status |-> status,
                              securityLevel |-> newFirmwareData.securityLevel ]) ])

\* the try block verifyFirmware and rejectFirmware share: read the blob, parse
\* it, write it back with the new status
rewriteStatus(keysBytes, blobs, firmwareId, status, failAt) ==
    IF failAt = "signer" \/ failAt = "getData" THEN Done("error", keysBytes, blobs)
    ELSE IF BytesLength(blobs[firmwareId]) = 0 THEN Done("error", keysBytes, blobs)
    ELSE IF ParseThrows(blobs[firmwareId]) THEN Done("error", keysBytes, blobs)
    ELSE IF failAt = "setData" THEN Done("error", keysBytes, blobs)
    ELSE LET firmwareData == Parse(blobs[firmwareId])
             updatedFirmware == [firmwareData EXCEPT !.status = status]
         IN  Done("success", keysBytes,
                  [blobs EXCEPT ![firmwareId] = Stringify(updatedFirmware)])

verifyFirmware(keysBytes, blobs, firmwareId, failAt) ==
    rewriteStatus(keysBytes, blobs, firmwareId, "verified", failAt)

rejectFirmware(keysBytes, blobs, firmwareId, failAt) ==
    rewriteStatus(keysBytes, blobs, firmwareId, "rejected", failAt)

\* ------------------------------------------------------------ user actions
\* onWalletSelect / onDisconnect
ConnectWallet ==
    /\ provider' = TRUE
    /\ UNCHANGED << dataKeys, dataFirmware, firmwares, transactionStatus,
                    invocations, clients, ledger >>

DisconnectWallet ==
    /\ provider' = FALSE
    /\ UNCHANGED << dataKeys, dataFirmware, firmwares, transactionStatus,
                    invocations, clients, ledger >>

\* The synchronous head of uploadFirmware / verifyFirmware / rejectFirmware:
\* without a wallet it alerts and returns, otherwise it shows the banner as
\* pending and goes on asynchronously.  The user starts an action when no
\* earlier one is still in its try block; its timer may still be running.
begin(op, firmwareId) ==
    /\ Len(invocations) < MaxInvocations
    /\ \A j \in 1 .. Len(invocations) : invocations[j].pc # "pending"
    /\ IF ~provider
       THEN /\ invocations' = Append(invocations,
                   [op |-> op, id |-> firmwareId, pc |-> "alert"])
            /\ UNCHANGED transactionStatus
       ELSE /\ invocations' = Append(invocations,
                   [op |-> op, id |-> firmwareId, pc |-> "pending"])
            /\ transactionStatus' = [visible |-> TRUE, status |-> "pending"]
    /\ UNCHANGED << dataKeys, dataFirmware, provider, firmwares, clients, ledger >>

\* the upload dialog's submit button
UploadFirmware == begin("uploadFirmware", "")

\* the buttons a listed pending firmware shows to its manufacturer
VerifyFirmware ==
    \E i \in 1 .. Len(firmwares) :
        /\ firmwares[i].status = "pending"
        /\ begin("verifyFirmware", firmwares[i].id)

RejectFirmware ==
    \E i \in 1 .. Len(firmwares) :
        /\ firmwares[i].status = "pending"
        /\ begin("rejectFirmware", firmwares[i].id)

\* the ids Date.now() and Math.random() can give an upload: those not in use
FreshIds == { id \in FirmwareIds : BytesLength(dataFirmware[id]) = 0 }

\* Math.floor(Date.now() / 1000) as invocation i reads it: the clock is ahead
\* of the stored timestamps and ticks between two actions
Now(i) == 2 + i

\* what the try block of invocation i can come to
Outcomes(i) ==
    LET inv == invocations[i]
    IN  IF inv.op = "uploadFirmware"
        THEN { uploadFirmware(dataKeys, dataFirmware, id, Now(i), failAt) :
                 id \in FreshIds, failAt \in FailPoints }
             \cup { uploadFirmware(dataKeys, dataFirmware, "fw1", Now(i), "signer") }
        ELSE IF inv.op = "verifyFirmware"
        THEN { verifyFirmware(dataKeys, dataFirmware, inv.id, failAt) :
                 failAt \in FailPoints }
        ELSE { rejectFirmware(dataKeys, dataFirmware, inv.id, failAt) :
                 failAt \in FailPoints }

\* variant of the asynchronous rest: a thrown error leaves the banner as it is
Resume_NoErrorBanner(i) ==
    /\ i \in 1 .. Len(invocations)
    /\ invocations[i].pc = "pending"
    /\ \E out \in Outcomes(i), env \in LoadEnvs :
          /\ dataKeys' = out.dataKeys
          /\ dataFirmware' = out.dataFirmware
          /\ transactionStatus' = IF out.result = "success"
                                  THEN [visible |-> TRUE, status |-> "success"]
                                  ELSE transactionStatus
          /\ firmwares' = IF out.result = "success"
                          THEN loadFirmwares(out.dataKeys, out.dataFirmware,
                                             firmwares, env)
                          ELSE firmwares
          /\ invocations' = [invocations EXCEPT ![i].pc = out.result]
    /\ UNCHANGED << provider, clients, ledger >>

\* The asynchronous rest of an action: the try block, then the success banner,
\* the list reload and the 2 s timer, or the error banner and the 3 s timer.
Resume(i) ==
    /\ i \in 1 .. Len(invocations)
    /\ invocations[i].pc = "pending"
    /\ \E out \in Outcomes(i), env \in LoadEnvs :
          /\ dataKeys' = out.dataKeys
          /\ dataFirmware' = out.dataFirmware
          /\ transactionStatus' = [visible |-> TRUE, status |-> out.result]
          /\ firmwares' = IF out.result = "success"
                          THEN loadFirmwares(out.dataKeys, out.dataFirmware,
                                             firmwares, env)
                          ELSE firmwares
          /\ invocations' = [invocations EXCEPT ![i].pc = out.result]
    /\ UNCHANGED << provider, clients, ledger >>

\* setTimeout(() => setTransactionStatus({ visible: false, ... }), ...)
TimerFires(i) ==
    /\ i \in 1 .. Len(invocations)
    /\ invocations[i].pc \in {"success", "error"}
    /\ transactionStatus' = [visible |-> FALSE, status |-> "pending"]
    /\ invocations' = [invocations EXCEPT ![i].pc = "dismissed"]
    /\ UNCHANGED << dataKeys, dataFirmware, provider, firmwares, clients, ledger >>

ResumeAction == \E i \in 1 .. MaxInvocations : Resume(i)
BannerTimer == \E i \in 1 .. MaxInvocations : TimerFires(i)

\* another client of the store empties the blob of the first firmware
SetDataByOthers ==
    /\ \E id \in {"fw1"} :
          /\ dataFirmware[id].kind = "json"
          /\ dataFirmware' = [dataFirmware EXCEPT ![id] = NoBytes]
    /\ UNCHANGED << dataKeys, provider, firmwares, transactionStatus,
                    invocations, clients, ledger >>

\* the stores the page may find when it opens: an empty one, or an index of
\* two firmwares, the first of which may be garbled
InitialStores ==
    { [dataKeys |-> NoKeysBytes, dataFirmware |-> [id \in FirmwareIds |-> NoBytes]] }
        \cup
    { [ dataKeys |-> StringifyKeys(<< "fw1", "fw2" >>),
        dataFirmware |-> [id \in FirmwareIds |->
            CASE id = "fw1" -> first
              [] id = "fw2" -> Stringify(
                    CHOOSE d \in StoredFirmwareData : d.status = "")
              [] OTHER -> NoBytes ] ] :
        first \in { GarbageBytes,
                    Stringify(CHOOSE d \in StoredFirmwareData :
                                  d.status = "pending") } }

FrontendInit ==
    /\ messageCount = 0
    /\ encryptedMessages = [k \in Keys |-> EmptyEncrypted]
    /\ decryptedMessages = [k \in Keys |-> EmptyDecrypted]
    /\ encryptedEcuStats = [e \in EcuIds |-> NoCounter]
    /\ ecuList = << >>
    /\ requestToMessageId = [r \in RequestIds |-> 0]
    /\ events = [k \in Keys |-> << >>]
    /\ decryptionRequests = << >>
    /\ blockTimestamp = 0
    /\ lastCall = [op |-> "constructor", arg |-> 0]
    /\ \E store \in InitialStores :
          /\ dataKeys = store.dataKeys
          /\ dataFirmware = store.dataFirmware
    /\ provider = FALSE
    /\ firmwares = << >>
    /\ transactionStatus = [visible |-> FALSE, status |-> "pending"]
    /\ invocations = << >>
    /\ clients = [c \in Clients |-> IdleClient]

FrontendNext ==
    \/ ConnectWallet
    \/ DisconnectWallet
    \/ LoadFirmwares
    \/ UploadFirmware
    \/ VerifyFirmware
    \/ RejectFirmware
    \/ ResumeAction
    \/ BannerTimer
    \/ SetDataByOthers

FrontendSpec == FrontendInit /\ [][FrontendNext]_vars

\* The page runs in a JavaScript event loop: a promise an action awaits is
\* settled in the end, and a timer that was set fires.
FrontendFairSpec ==
    /\ FrontendSpec
    /\ \A i \in 1 .. MaxInvocations :
          WF_vars(Resume(i)) /\ WF_vars(TimerFires(i))

\* ------------------------------------------------- list load on any store
\* the indexes and blobs a store may hold, whoever wrote them
MaxKeys == 3
StoredKeys ==
    { NoKeysBytes, GarbageKeysBytes }
        \cup { StringifyKeys(keys) :
                 keys \in UNION { [1 .. n -> FirmwareIds] : n \in 0 .. MaxKeys } }
StoredBlobs ==
    {NoBytes, GarbageBytes} \cup { Stringify(d) : d \in StoredFirmwareData }

LoadInit ==
    /\ messageCount = 0
    /\ encryptedMessages = [k \in Keys |-> EmptyEncrypted]
    /\ decryptedMessages = [k \in Keys |-> EmptyDecrypted]
    /\ encryptedEcuStats = [e \in EcuIds |-> NoCounter]
    /\ ecuList = << >>
    /\ requestToMessageId = [r \in RequestIds |-> 0]
    /\ events = [k \in Keys |-> << >>]
    /\ decryptionRequests = << >>
    /\ blockTimestamp = 0
    /\ lastCall = [op |-> "constructor", arg |-> 0]
    /\ dataKeys \in StoredKeys
    /\ dataFirmware \in [FirmwareIds -> StoredBlobs]
    /\ provider = FALSE
    /\ firmwares = << >>
    /\ transactionStatus = [visible |-> FALSE, status |-> "pending"]
    /\ invocations = << >>
    /\ clients = [c \in Clients |-> IdleClient]

LoadNext == LoadFirmwares

LoadSpec == LoadInit /\ [][LoadNext]_vars

\* ------------------------------------------- several sessions on one store
\* Each await of an action is a step of its own, so that the reads and writes
\* of different sessions interleave as the ledger orders them.

\* the uploads made in all, over all sessions
MaxUploads == 2
\* the actions (uploads, verifications, rejections) a session starts
MaxActions == 2

\* what the sessions leave alone
NotOfClients ==
    UNCHANGED << provider, firmwares, transactionStatus, invocations, ledger >>

\* the firmware ids in use: stored, or picked by an upload in progress
UsedIds ==
    { id \in FirmwareIds : BytesLength(dataFirmware[id]) > 0 }
      \cup { clients[c].action.firmwareId :
               c \in { d \in Clients : /\ clients[d].action.op = "uploadFirmware"
                                       /\ clients[d].action.pc # "reload" } }

\* `${Date.now()}-${Math.random()...}`: an id not in use
NewFirmwareId ==
    IF "fw1" \notin UsedIds THEN "fw1"
    ELSE IF "fw2" \notin UsedIds THEN "fw2" ELSE "fw3"

\* how a load of a session goes: all reads go through, or the store is not
\* available and the list stays as it is
SessionLoadEnvs ==
    { QuietLoad,
      [ contract |-> TRUE, isAvailable |-> FALSE, keysThrow |-> FALSE,
        throwing |-> {} ] }

\* Math.floor(Date.now() / 1000) of the upload that picked the id: the clock
\* ticks between two picks
UploadTime(id) == CASE id = "fw1" -> 1 [] id = "fw2" -> 2 [] OTHER -> 3

\* loadFirmwares begins (the load on mount, or the Refresh button, which is
\* disabled while isRefreshing): setIsRefreshing(true).  A session has one
\* such call running at a time beside the reload of an action.
StartRefresh(c) ==
    /\ ~clients[c].isRefreshing
    /\ clients[c].refresh = "idle"
    /\ clients' = [clients EXCEPT ![c].isRefreshing = TRUE,
                                  ![c].refresh = "running"]
    /\ UNCHANGED << dataKeys, dataFirmware >>
    /\ NotOfClients

\* loadFirmwares of session `client` ends: the list is set if the reads went
\* through, and the finally block runs setIsRefreshing(false)
loadEnds(client, env) ==
    [ client EXCEPT
        !.firmwares = loadFirmwares(dataKeys, dataFirmware, client.firmwares, env),
        !.isRefreshing = FALSE ]

FinishRefresh(c) ==
    /\ clients[c].refresh = "running"
    /\ \E env \in SessionLoadEnvs :
          clients' = [clients EXCEPT
                        ![c] = [loadEnds(clients[c], env) EXCEPT !.refresh = "idle"]]
    /\ UNCHANGED << dataKeys, dataFirmware >>
    /\ NotOfClients

\* a whole loadFirmwares call of a session that has no other call running:
\* isRefreshing is set and cleared again, the list is set if the reads went
\* through
LoadList(c) ==
    /\ ~clients[c].isRefreshing
    /\ clients[c].refresh = "idle"
    /\ \E env \in SessionLoadEnvs :
          clients' = [clients EXCEPT ![c] = loadEnds(clients[c], env)]
    /\ UNCHANGED << dataKeys, dataFirmware >>
    /\ NotOfClients

\* the action a has come through its writes and awaits loadFirmwares(); its
\* locals are not read again
Reloading(a) == [NoAction EXCEPT !.op = a.op, !.pc = "reload"]

\* uploadFirmware begins (the submit button is disabled while uploading)
StartUpload(c) ==
    /\ clients[c].action.op = "none"
    /\ clients[c].started < MaxActions
    /\ Cardinality(UsedIds) < MaxUploads
    /\ clients' = [clients EXCEPT
                     ![c].started = @ + 1,
                     ![c].action =
                       [ NoAction EXCEPT !.op = "uploadFirmware", !.pc = "setBlob",
                                         !.firmwareId = NewFirmwareId ]]
    /\ UNCHANGED << dataKeys, dataFirmware >>
    /\ NotOfClients

\* variant: the write of the blob is lost
UploadSetBlob_Lost(c) ==
    LET a == clients[c].action
    IN  /\ a.op = "uploadFirmware" /\ a.pc = "setBlob"
        /\ clients' = [clients EXCEPT ![c].action.pc = "getKeys"]
        /\ UNCHANGED << dataKeys, dataFirmware >>
        /\ NotOfClients

\* await contract.setData(`firmware_${firmwareId}`, ...)
UploadSetBlob(c) ==
    LET a == clients[c].action
        firmwareData ==
            [ firmwareHash |-> newFirmwareData.firmwareHash,
              timestamp |-> UploadTime(a.firmwareId),
              manufacturer |-> newFirmwareData.manufacturer,
              ecuModel |-> newFirmwareData.ecuModel,
              status |-> "pending",
              securityLevel |-> newFirmwareData.securityLevel ]
    IN  /\ a.op = "uploadFirmware" /\ a.pc = "setBlob"
        /\ dataFirmware' = [dataFirmware EXCEPT ![a.firmwareId] = Stringify(firmwareData)]
        /\ clients' = [clients EXCEPT ![c].action.pc = "getKeys"]
        /\ UNCHANGED dataKeys
        /\ NotOfClients

\* const keysBytes = await contract.getData("firmware_keys"); keys = JSON.parse(...)
UploadGetKeys(c) ==
    LET a == clients[c].action
    IN  /\ a.op = "uploadFirmware" /\ a.pc = "getKeys"
        /\ clients' = [clients EXCEPT
                         ![c].action.pc = "setKeys",
                         ![c].action.keys =
                             IF BytesLength(dataKeys) > 0 /\ ~ParseThrows(dataKeys)
                             THEN ParseKeys(dataKeys) ELSE << >>]
        /\ UNCHANGED << dataKeys, dataFirmware >>
        /\ NotOfClients

\* keys.push(firmwareId); await contract.setData("firmware_keys", ...); the
\* success banner; loadFirmwares begins
UploadSetKeys(c) ==
    LET a == clients[c].action
    IN  /\ a.op = "uploadFirmware" /\ a.pc = "setKeys"
        /\ dataKeys' = StringifyKeys(Append(a.keys, a.firmwareId))
        /\ clients' = [clients EXCEPT
                         ![c].action = Reloading(a),
                         ![c].isRefreshing = TRUE,
                         ![c].uploaded = @ \cup {a.firmwareId}]
        /\ UNCHANGED dataFirmware
        /\ NotOfClients

\* verifyFirmware / rejectFirmware begins: the button of a listed firmware the
\* session shows as pending
StartRewrite(c) ==
    /\ clients[c].action.op = "none"
    /\ clients[c].started < MaxActions
    /\ \E i \in 1 .. Len(clients[c].firmwares) :
       \E op \in {"verifyFirmware", "rejectFirmware"} :
          /\ clients[c].firmwares[i].status = "pending"
          /\ clients' = [clients EXCEPT
                          ![c].started = @ + 1,
                          ![c].action =
                           [ NoAction EXCEPT
                               !.op = op, !.pc = "getBlob",
                               !.firmwareId = clients[c].firmwares[i].id ]]
    /\ UNCHANGED << dataKeys, dataFirmware >>
    /\ NotOfClients

\* const firmwareBytes = await contract.getData(...); "Firmware not found"
\* if empty; firmwareData = JSON.parse(...)
RewriteGetBlob(c) ==
    LET a == clients[c].action
        firmwareBytes == dataFirmware[a.firmwareId]
    IN  /\ a.op \in {"verifyFirmware", "rejectFirmware"} /\ a.pc = "getBlob"
        /\ clients' = [clients EXCEPT ![c].action =
                         IF BytesLength(firmwareBytes) = 0 \/ ParseThrows(firmwareBytes)
                         THEN NoAction
                         ELSE [a EXCEPT !.pc = "setStatus",
                                        !.firmwareData = Parse(firmwareBytes)]]
        /\ UNCHANGED << dataKeys, dataFirmware >>
        /\ NotOfClients

\* await contract.setData(`firmware_${firmwareId}`, { ...firmwareData,
\* status }); the success banner; loadFirmwares begins
RewriteSetStatus(c) ==
    LET a == clients[c].action
        status == IF a.op = "verifyFirmware" THEN "verified" ELSE "rejected"
    IN  /\ a.op \in {"verifyFirmware", "rejectFirmware"} /\ a.pc = "setStatus"
        /\ dataFirmware' = [dataFirmware EXCEPT ![a.firmwareId] =
                              Stringify([a.firmwareData EXCEPT !.status = status])]
        /\ clients' = [clients EXCEPT ![c].action = Reloading(a),
                                      ![c].isRefreshing = TRUE]
        /\ UNCHANGED dataKeys
        /\ NotOfClients

\* the reload that follows a successful action ends
FinishReload(c) ==
    /\ clients[c].action.pc = "reload"
    /\ \E env \in SessionLoadEnvs :
          clients' = [clients EXCEPT
                        ![c] = [loadEnds(clients[c], env) EXCEPT !.action = NoAction]]
    /\ UNCHANGED << dataKeys, dataFirmware >>
    /\ NotOfClients

\* a call of the try block throws (the signer, a read or a write fails): the
\* catch block shows the error and the action is over, nothing is taken back
Throws(c) ==
    /\ clients[c].action.pc \in {"setBlob", "getKeys", "setKeys", "getBlob", "setStatus"}
    /\ clients' = [clients EXCEPT ![c].action = NoAction]
    /\ UNCHANGED << dataKeys, dataFirmware >>
    /\ NotOfClients

\* the steps of the sessions, the loads of the Refresh button taken whole
Refresh == \E c \in Clients : LoadList(c)
Upload == \E c \in Clients : StartUpload(c)
UploadBlob == \E c \in Clients : UploadSetBlob(c)
UploadReadsKeys == \E c \in Clients : UploadGetKeys(c)
UploadWritesKeys == \E c \in Clients : UploadSetKeys(c)
Rewrite == \E c \in Clients : StartRewrite(c)
RewriteReads == \E c \in Clients : RewriteGetBlob(c)
RewriteWrites == \E c \in Clients : RewriteSetStatus(c)
ReloadEnds == \E c \in Clients : FinishReload(c)
ActionThrows == \E c \in Clients : Throws(c)

ClientsNext ==
    \/ Refresh
    \/ Upload
    \/ UploadBlob
    \/ UploadReadsKeys
    \/ UploadWritesKeys
    \/ Rewrite
    \/ RewriteReads
    \/ RewriteWrites
    \/ ReloadEnds
    \/ ActionThrows

\* the sessions open on an empty store
ClientsSpec == Init /\ [][ClientsNext]_vars

\* one session, with the loads of its Refresh button running beside its
\* actions
SessionNext ==
    \/ StartRefresh("c1")
    \/ FinishRefresh("c1")
    \/ StartUpload("c1")
    \/ UploadSetBlob("c1")
    \/ UploadGetKeys("c1")
    \/ UploadSetKeys("c1")
    \/ StartRewrite("c1")
    \/ RewriteGetBlob("c1")
    \/ RewriteSetStatus("c1")
    \/ FinishReload("c1")
    \/ Throws("c1")

SessionSpec == Init /\ [][SessionNext]_vars

\* ============================================================== properties
\* how many events named `name` the log holds for id m
EventCountIn(log, m, name) ==
    Cardinality({ i \in 1 .. Len(log[m]) : log[m][i][1] = name })
EventCount(m, name) == EventCountIn(events, m, name)

\* the positions of the events named `name` in the log of id m
EventPositions(m, name) ==
    { i \in 1 .. Len(events[m]) : events[m][i][1] = name }

\* this step is a verifyCommand callback that went through for message id m
VerifiedNow(m) ==
    /\ lastCall'.op = "verifyCommand"
    /\ requestToMessageId[lastCall'.arg] = m

\* request id r is registered (the oracle issued it) for selector sel
Registered(r, sel) ==
    /\ r < Len(decryptionRequests)
    /\ decryptionRequests[r + 1].selector = sel

\* the payload the oracle attests for the registered request id r
Attested(r) == Decryption(decryptionRequests[r + 1].ciphertexts)

\* ------------------------------------------------------------ fair delivery
\* The oracle delivers the callback of the verification request it numbered
\* requestId: the cleartext it attests for the handles, with a valid proof.
Deliver(requestId) ==
    /\ Registered(requestId, "verifyCommand")
    /\ Commit(verifyCommand(World, requestId, Attested(requestId), "kms"),
              [ op |-> "verifyCommand", arg |-> requestId,
                cleartexts |-> Attested(requestId) ])
    /\ UNCHANGED << blockTimestamp, frontend >>

\* the ledger with an oracle that delivers every callback in the end
FairSpec == Spec /\ \A requestId \in RequestIds : WF_vars(Deliver(requestId))

\* ---------------------------------------------------------------------- C1
\* C1: the k-th successful submitEncryptedCanMessage stores its record under
\* id k and leaves messageCount = k (ids start at 1 and grow by exactly 1 per
\* submit); no other operation changes messageCount.
C1_IdsSequential ==
    /\ [](\A k \in Keys :
            IF k \in 1 .. messageCount
            THEN /\ encryptedMessages[k].id = k
                 /\ EventCount(k, "MessageReceived") = 1
            ELSE /\ encryptedMessages[k] = EmptyEncrypted
                 /\ EventCount(k, "MessageReceived") = 0)
    /\ [][ IF lastCall'.op = "submitEncryptedCanMessage"
           THEN /\ messageCount' = messageCount + 1
                /\ encryptedMessages'[messageCount'].id = messageCount'
                /\ encryptedMessages'[messageCount'].encryptedCommand
                       = Encrypt(lastCall'.arg[1])
                /\ EventCountIn(events', messageCount', "MessageReceived") = 1
           ELSE messageCount' = messageCount ]_vars

C1_Witness ==
    /\ lastCall.op = "submitEncryptedCanMessage"
    /\ messageCount = 2
    /\ encryptedMessages[2].id = 2
    /\ encryptedMessages[1].id = 1

\* ---------------------------------------------------------------------- C2
\* C2: for every message id, isVerified goes from false to true exactly once
\* and no operation ever sets it back to false.
C2_VerifiedOnceNeverReset ==
    /\ [][ \A m \in Keys :
             decryptedMessages[m].isVerified => decryptedMessages'[m].isVerified ]_vars
    /\ [](\A m \in Keys : EventCount(m, "MessageVerified") <= 1)

\* ---------------------------------------------------------------------- C3
\* C3: whenever verifyCommand marks message id m verified, submit has earlier
\* assigned id m (MessageReceived(m)) and, after that,
\* requestCommandVerification(m) has been executed (VerificationRequested(m)).
C3_Lifecycle ==
    [][ \A m \in Keys :
          VerifiedNow(m) =>
            \E i \in EventPositions(m, "MessageReceived") :
              \E j \in EventPositions(m, "VerificationRequested") : i < j ]_vars

\* ---------------------------------------------------------------------- C4
\* C4: verifyCommand called with any request id that maps to a message whose
\* isVerified is already true fails with "Already verified", whatever the
\* cleartext and the proof, and changes nothing.
C4_NoSecondVerification ==
    \A requestId \in RequestIds, cleartexts \in Payloads, proof \in Proofs :
        decryptedMessages[requestToMessageId[requestId]].isVerified =>
            verifyCommand(World, requestId, cleartexts, proof)
                = [result |-> "Already verified", world |-> World]

\* a message verified by its callback, whose request is delivered once more
\* with the attested cleartext and a valid proof
C4_Witness ==
    /\ lastCall.op = "verifyCommand"
    /\ requestToMessageId[lastCall.arg] \in 1 .. messageCount
    /\ decryptedMessages[requestToMessageId[lastCall.arg]].isVerified
    /\ checkSignatures(World, lastCall.arg, lastCall.cleartexts, "kms")
    /\ verifyCommand(World, lastCall.arg, lastCall.cleartexts, "kms").result
           = "Already verified"

\* ---------------------------------------------------------------------- C5
\* C5: requestCommandVerification(m) for a message m whose isVerified is true
\* fails with "Already verified": no decryption request is sent, no
\* request-id mapping is added and no VerificationRequested event is emitted.
C5_NoRequestForVerified ==
    \A messageId \in MessageIds :
        decryptedMessages[messageId].isVerified =>
            LET out == requestCommandVerification(World, messageId)
            IN  /\ out.result = "Already verified"
                /\ out.world.decryptionRequests = decryptionRequests
                /\ out.world.requestToMessageId = requestToMessageId
                /\ out.world.events = events

C5_Witness ==
    \E messageId \in 1 .. messageCount :
        /\ decryptedMessages[messageId].isVerified
        /\ Len(decryptionRequests) < MaxRequests
        /\ requestCommandVerification(World, messageId).result = "Already verified"

\* ---------------------------------------------------------------------- C6
\* message id m got a verifyCommand callback that went through after its
\* submission
VerifiedSinceSubmit(m) ==
    \E i \in EventPositions(m, "MessageVerified") :
        \A j \in EventPositions(m, "MessageReceived") : j < i

\* C6: every message that has been submitted and has not yet received a
\* successful verifyCommand callback since its submission has empty command,
\* sourceEcu and targetEcu and isVerified = false, however many verification
\* requests or failed callbacks were issued for it.
C6_EmptyUntilVerified ==
    \A m \in 1 .. messageCount :
        ~VerifiedSinceSubmit(m) =>
            getDecryptedMessage(World, m) = << "", "", "", FALSE >>

\* a submitted message with two verification requests and a callback that
\* fails on its proof
C6_Witness ==
    \E m \in 1 .. messageCount, requestId \in RequestIds :
        /\ Registered(requestId, "verifyCommand")
        /\ requestToMessageId[requestId] = m
        /\ ~VerifiedSinceSubmit(m)
        /\ EventCount(m, "VerificationRequested") >= 2
        /\ verifyCommand(World, requestId, Attested(requestId), "forged").result
               = "InvalidProof"
        /\ getDecryptedMessage(World, m) = << "", "", "", FALSE >>

\* ---------------------------------------------------------------------- C7
NoDuplicates(seq) ==
    \A i, j \in 1 .. Len(seq) : i # j => seq[i] # seq[j]

\* C7: after every successful verifyCommand callback whose cleartext has
\* source ECU s the aggregate counter of s is initialised (created as 0 if
\* absent, then incremented), and ecuList contains each name at most once,
\* also after several verified messages from the same ECU.
C7_CounterAndRegistry ==
    /\ [](NoDuplicates(ecuList))
    /\ [][ lastCall'.op = "verifyCommand" =>
            LET s == AbiDecodeStrings(lastCall'.cleartexts)[2]
                before == IF isInitialized(encryptedEcuStats[s])
                          THEN encryptedEcuStats[s].val ELSE 0
            IN  /\ isInitialized(encryptedEcuStats'[s])
                /\ encryptedEcuStats'[s].val = before + 1
                /\ \E i \in 1 .. Len(ecuList') : ecuList'[i] = s
                /\ \A e \in EcuIds \ {s} : encryptedEcuStats'[e] = encryptedEcuStats[e]
          ]_vars

C7_Witness ==
    /\ lastCall.op = "verifyCommand"
    /\ \E m1, m2 \in 1 .. messageCount :
        /\ m1 # m2
        /\ decryptedMessages[m1].isVerified
        /\ decryptedMessages[m2].isVerified
        /\ decryptedMessages[m1].sourceEcu = decryptedMessages[m2].sourceEcu
        /\ encryptedEcuStats[decryptedMessages[m1].sourceEcu].val = 2
        /\ ecuList = << decryptedMessages[m1].sourceEcu >>

\* ---------------------------------------------------------------------- C8
\* request id r was registered by requestCommandVerification(m) after
\* submitEncryptedCanMessage assigned id m (it carries the submitted handles)
RequestedAfterSubmit(r, m) ==
    /\ Registered(r, "verifyCommand")
    /\ requestToMessageId[r] = m
    /\ m \in 1 .. messageCount
    /\ isInitialized(encryptedMessages[m].encryptedCommand)
    /\ decryptionRequests[r + 1].ciphertexts =
         << encryptedMessages[m].encryptedCommand,
            encryptedMessages[m].encryptedSourceEcu,
            encryptedMessages[m].encryptedTargetEcu >>

\* C8: after submit assigns id m, requestCommandVerification(m) registers
\* request id R and verifyCommand(R, cleartext, proof) is delivered with a
\* valid proof and a cleartext decoding to (c, s, t), getDecryptedMessage(m)
\* returns (c, s, t, true).
C8_EndToEnd ==
    \A m \in MessageIds, requestId \in RequestIds, cleartexts \in Payloads :
        ( /\ RequestedAfterSubmit(requestId, m)
          /\ checkSignatures(World, requestId, cleartexts, "kms")
          /\ CanDecodeStrings(cleartexts) )
        => LET t == AbiDecodeStrings(cleartexts)
               out == verifyCommand(World, requestId, cleartexts, "kms")
           IN  getDecryptedMessage(out.world, m) = << t[1], t[2], t[3], TRUE >>

\* ---------------------------------------------------------------------- C9
\* the outcomes of every call that can be made in the current state
CallOutcomes ==
    { requestCommandVerification(World, m) : m \in MessageIds }
      \cup { requestEcuStatsDecryption(World, e) : e \in EcuIds }
      \cup { verifyCommand(World, x[1], x[2], x[3]) :
               x \in RequestIds \X Payloads \X Proofs }
      \cup { decryptEcuStats(World, x[1], x[2], x[3]) :
               x \in RequestIds \X Payloads \X Proofs }

\* C9: every failing contract call ("Already verified", "Invalid request",
\* "ECU not found", or a proof rejected by the oracle library) leaves
\* messageCount, the encrypted and decrypted records, the per-ECU aggregates,
\* the ECU registry and the request-id map as they were and emits no event.
C9_RevertHasNoEffect ==
    \A out \in CallOutcomes :
        out.result # "ok" =>
            /\ out.result \in { "Already verified", "Invalid request",
                                "ECU not found", "InvalidProof", "abi.decode" }
            /\ out.world = World

\* a state with verified messages and counters in which each of the failures
\* can be provoked
C9_Witness ==
    /\ ecuList # << >>
    /\ \A reason \in { "Already verified", "Invalid request", "ECU not found",
                       "InvalidProof" } :
          \E out \in CallOutcomes : out.result = reason
    /\ \E requestId \in RequestIds :
          /\ requestToMessageId[requestId] \in 1 .. messageCount
          /\ verifyCommand(World, requestId, Attested(requestId), "forged").result
                 = "InvalidProof"

\* --------------------------------------------------------------------- C10
\* C10: verifyCommand called with a request id that no request operation has
\* registered fails with "Invalid request"; the same holds for a request id
\* registered by requestCommandVerification(0), so the record at message id 0
\* is never verified.
C10_InvalidRequest ==
    /\ \A r \in RequestIds :
          r >= Len(decryptionRequests) => requestToMessageId[r] = 0
    /\ ~decryptedMessages[0].isVerified
    /\ \A requestId \in RequestIds, cleartexts \in Payloads, proof \in Proofs :
          ( \/ requestId >= Len(decryptionRequests)
            \/ requestToMessageId[requestId] = 0 )
          => verifyCommand(World, requestId, cleartexts, proof)
                 = [result |-> "Invalid request", world |-> World]

\* a request registered by requestCommandVerification(0), delivered with the
\* attested cleartext and a valid proof, and a request id nobody registered
C10_Witness ==
    \E r0, r1 \in RequestIds :
        /\ Registered(r0, "verifyCommand")
        /\ requestToMessageId[r0] = 0
        /\ checkSignatures(World, r0, Attested(r0), "kms")
        /\ verifyCommand(World, r0, Attested(r0), "kms").result = "Invalid request"
        /\ r1 >= Len(decryptionRequests)
        /\ \E cleartexts \in Payloads :
              verifyCommand(World, r1, cleartexts, "kms").result = "Invalid request"

\* --------------------------------------------------------------------- C11
\* C11: requestEcuStatsDecryption(e) fails with "ECU not found" exactly when
\* no aggregate counter exists for e, that is when no successful verifyCommand
\* callback has yet carried source ECU e (a counter comes into being only in
\* such a callback and never goes away); otherwise it succeeds and registers
\* a fresh request id mapped to the hash of e.
C11_StatsRequest ==
    /\ [](\A e \in EcuIds :
            LET out == requestEcuStatsDecryption(World, e)
                reqId == Len(decryptionRequests)
            IN  IF ~isInitialized(getEncryptedEcuStats(World, e))
                THEN out = [result |-> "ECU not found", world |-> World]
                ELSE /\ out.result = "ok"
                     /\ out.world.requestToMessageId[reqId]
                            = bytes32ToUint(keccak256(e))
                     /\ Len(out.world.decryptionRequests) = reqId + 1
                     /\ out.world.decryptionRequests[reqId + 1].selector
                            = "decryptEcuStats")
    /\ [][ \A e \in EcuIds :
             /\ isInitialized(encryptedEcuStats[e])
                    => isInitialized(encryptedEcuStats'[e])
             /\ ( ~isInitialized(encryptedEcuStats[e])
                  /\ isInitialized(encryptedEcuStats'[e]) )
                    => ( /\ lastCall'.op = "verifyCommand"
                         /\ AbiDecodeStrings(lastCall'.cleartexts)[2] = e )
             /\ ( lastCall'.op = "verifyCommand"
                  /\ AbiDecodeStrings(lastCall'.cleartexts)[2] = e )
                    => isInitialized(encryptedEcuStats'[e]) ]_vars

\* an aggregate request that went through for a counted ECU, while another
\* ECU has no counter and its request fails
C11_Witness ==
    /\ lastCall.op = "requestEcuStatsDecryption"
    /\ isInitialized(encryptedEcuStats[lastCall.arg])
    /\ requestToMessageId[Len(decryptionRequests) - 1]
           = bytes32ToUint(keccak256(lastCall.arg))
    /\ \E e \in EcuIds :
          /\ ~isInitialized(encryptedEcuStats[e])
          /\ requestEcuStatsDecryption(World, e).result = "ECU not found"

\* --------------------------------------------------------------------- C12
\* the verified messages with ids 1..messageCount whose sourceEcu is e
VerifiedFrom(e) ==
    { i \in 1 .. messageCount :
        decryptedMessages[i].isVerified /\ decryptedMessages[i].sourceEcu = e }
\* and those of them that pass validateCommand
ValidFrom(e) ==
    { i \in VerifiedFrom(e) :
        validateCommand(decryptedMessages[i].command,
                        decryptedMessages[i].sourceEcu,
                        decryptedMessages[i].targetEcu) }

\* C12: in every reachable state and for every ECU id e,
\* calculateEcuTrustScore(e) returns floor(k*100/n), n being the number of
\* verified messages with ids 1..messageCount whose sourceEcu is e and k the
\* number of those that pass validateCommand, and 100 when n = 0.
C12_TrustScore ==
    \A e \in EcuIds :
        LET n == Cardinality(VerifiedFrom(e))
            k == Cardinality(ValidFrom(e))
        IN  calculateEcuTrustScore(World, e)
                = IF n = 0 THEN 100 ELSE (k * 100) \div n

\* one ECU with two verified messages, another with none
C12_Witness ==
    \E e1, e2 \in EcuIds :
        /\ Cardinality(VerifiedFrom(e1)) = 2
        /\ calculateEcuTrustScore(World, e1) = 100
        /\ Cardinality(VerifiedFrom(e2)) = 0
        /\ calculateEcuTrustScore(World, e2) = 100

\* --------------------------------------------------------------------- C13
\* C13: decryptEcuStats persists nothing: whether it succeeds or fails, and
\* for every request id, cleartext and proof, it leaves all contract state
\* (records, aggregates, registry, request map, messageCount) unchanged and
\* emits no event.
C13_DecryptEcuStatsPersistsNothing ==
    /\ [](\A requestId \in RequestIds, cleartexts \in Payloads, proof \in Proofs :
            decryptEcuStats(World, requestId, cleartexts, proof).world = World)
    /\ [][ lastCall'.op = "decryptEcuStats" => World' = World ]_vars

\* an aggregate callback that went through, after at least one verified
\* message, in a state where the callback of another request id fails
C13_Witness ==
    /\ lastCall.op = "decryptEcuStats"
    /\ Registered(lastCall.arg, "decryptEcuStats")
    /\ decryptEcuStats(World, lastCall.arg, lastCall.cleartexts, "kms").result = "ok"
    /\ lastCall.cleartexts = AbiEncodeUint32(1)
    /\ \E requestId \in RequestIds :
          decryptEcuStats(World, requestId, lastCall.cleartexts, "kms").result
              = "ECU not found"

\* --------------------------------------------------------------------- C14
\* the ids "firmware_keys" references, in its order
ReferencedIds ==
    IF BytesLength(dataKeys) > 0 /\ ~ParseThrows(dataKeys)
    THEN ParseKeys(dataKeys) ELSE << >>
\* the blob of id is there, can be read and is well-formed JSON
WellFormed(id, throwing) ==
    /\ id \notin throwing
    /\ dataFirmware[id].kind = "json"
\* how often x occurs in seq
Occurrences(seq, x) == Cardinality({ i \in 1 .. Len(seq) : seq[i] = x })
SortedByDescendingTimestamp(list) ==
    \A i, j \in 1 .. Len(list) :
        i < j => list[i].timestamp >= list[j].timestamp
\* list holds the well-formed records among the referenced ones, once per
\* reference, and nothing else
HoldsTheWellFormed(list, throwing) ==
    /\ \A id \in FirmwareIds :
          Cardinality({ i \in 1 .. Len(list) : list[i].id = id })
              = IF WellFormed(id, throwing)
                THEN Occurrences(ReferencedIds, id) ELSE 0
    /\ \A i \in 1 .. Len(list) :
          list[i] = ListEntry(list[i].id, Parse(dataFirmware[list[i].id]))

\* C14: when firmware_keys references several ids and the firmware_<id> blob
\* of one of them is malformed JSON (or its read fails), loadFirmwares skips
\* that record only and sets the displayed list to all remaining well-formed
\* records, ordered by descending timestamp.
C14_LoadSkipsMalformed ==
    \A env \in AllLoadEnvs :
        (env.contract /\ env.isAvailable /\ ~env.keysThrow) =>
            LET list == loadFirmwares(dataKeys, dataFirmware, firmwares, env)
            IN  /\ HoldsTheWellFormed(list, env.throwing)
                /\ SortedByDescendingTimestamp(list)

\* an index of three ids, the blob of one of them garbled, the two others
\* listed newest first, against their order in the index
C14_Witness ==
    /\ Len(ReferencedIds) = 3
    /\ \E i \in 1 .. 3 : dataFirmware[ReferencedIds[i]] = GarbageBytes
    /\ Len(firmwares) = 2
    /\ firmwares = loadFirmwares(dataKeys, dataFirmware, << >>, QuietLoad)
    /\ firmwares[1].timestamp > firmwares[2].timestamp
    /\ \E i, j \in 1 .. 3 :
          /\ i < j
          /\ ReferencedIds[i] = firmwares[2].id
          /\ ReferencedIds[j] = firmwares[1].id

\* ---------------------------------------------------------------- C15
\* invocation i of an action is at position pc
At(i, pc) == i \in 1 .. Len(invocations) /\ invocations[i].pc = pc

\* a step in which the user starts an action
Starts == Len(invocations') = Len(invocations) + 1

\* the banner of invocation i: pending while its try block runs, then success
\* or error as the block ended, and hidden by the step of its timer
BannerFollows(i) ==
    /\ (At(i, "pending")' /\ ~At(i, "pending"))
          => transactionStatus' = [visible |-> TRUE, status |-> "pending"]
    /\ (At(i, "pending") /\ ~At(i, "pending")')
          => /\ At(i, "success")' \/ At(i, "error")'
             /\ transactionStatus'.visible
             /\ transactionStatus'.status = invocations'[i].pc
    /\ ((At(i, "success") \/ At(i, "error")) /\ invocations'[i] # invocations[i])
          => /\ At(i, "dismissed")'
             /\ ~transactionStatus'.visible

\* invocation i gets from pending to success or error, and from there to the
\* step of its timer
BannerEnds(i) ==
    /\ At(i, "pending") ~> (At(i, "success") \/ At(i, "error"))
    /\ (At(i, "success") \/ At(i, "error")) ~> At(i, "dismissed")

\* C15 as stated: every action the user starts shows the banner as pending,
\* then as success or error, and the banner is hidden again by the timer, on
\* every exit path
C15_EveryExitPath ==
    /\ [][Starts => transactionStatus' = [visible |-> TRUE, status |-> "pending"]]_vars
    /\ [][\A i \in 1 .. MaxInvocations : BannerFollows(i)]_vars
    /\ \A i \in 1 .. MaxInvocations :
          /\ BannerEnds(i)
          /\ At(i, "alert") ~> At(i, "dismissed")

\* C15, amended: every action started with a wallet connected shows the banner
\* as pending, then as success or error according to how its try block ended
\* (a thrown error included), and the timer it sets hides the banner again; an
\* action started without a wallet alerts and returns and leaves the banner as
\* it was
C15_BannerWithWallet ==
    /\ [][(Starts /\ provider)
             => transactionStatus' = [visible |-> TRUE, status |-> "pending"]]_vars
    /\ [][(Starts /\ ~provider)
             => /\ transactionStatus' = transactionStatus
                /\ invocations'[Len(invocations')].pc = "alert"]_vars
    /\ [][\A i \in 1 .. MaxInvocations : BannerFollows(i)]_vars
    /\ [][\A i \in 1 .. MaxInvocations : At(i, "alert") => At(i, "alert")']_vars
    /\ \A i \in 1 .. MaxInvocations : BannerEnds(i)

\* an upload that threw before it wrote the index has had its banner hidden
\* by the timer
C15_Witness ==
    \E i \in 1 .. Len(invocations) :
        /\ invocations[i].op = "uploadFirmware"
        /\ invocations[i].pc = "dismissed"
        /\ dataKeys = NoKeysBytes
        /\ ~transactionStatus.visible

\* ---------------------------------------------------------------- C16
\* the fields of a stored firmware object other than its status
OtherFields == {"firmwareHash", "timestamp", "manufacturer", "ecuModel",
                "securityLevel"}

\* what a store holds after a status rewrite of firmware id to `status`,
\* given what it held before: nothing else than that blob has changed, and
\* the blob, if written, is the stored object with the new status
OnlyStatusRewritten(keysBytes, blobs, keysBytes1, blobs1, id, status) ==
    /\ keysBytes1 = keysBytes
    /\ \A other \in FirmwareIds \ {id} : blobs1[other] = blobs[other]
    /\ \/ blobs1[id] = blobs[id]
       \/ /\ BytesLength(blobs[id]) > 0
          /\ ~ParseThrows(blobs[id])
          /\ ~ParseThrows(blobs1[id])
          /\ Parse(blobs1[id]).status = status
          /\ \A f \in OtherFields : Parse(blobs1[id])[f] = Parse(blobs[id])[f]

\* the outcome `out` of a rewrite of firmware id in the present store
RewriteOutcome(out, id, status, failAt) ==
    /\ OnlyStatusRewritten(dataKeys, dataFirmware,
                           out.dataKeys, out.dataFirmware, id, status)
    /\ (out.result = "success")
          <=> /\ failAt \in {"none", "setKeys"}
              /\ BytesLength(dataFirmware[id]) > 0
              /\ ~ParseThrows(dataFirmware[id])
    /\ out.result = "success"
          => Parse(out.dataFirmware[id]).status = status
    /\ out.result # "success" => out.dataFirmware = dataFirmware

\* C16: verifyFirmware(id) and rejectFirmware(id) write at most the entry of
\* firmware id, as the stored object with only its status changed to
\* "verified" or "rejected"; they never write the index or another record,
\* and write nothing when the blob is absent (or does not parse, or a call
\* throws).  This holds of the two functions in every store reached, and of
\* every step in which an action of theirs runs its try block.
C16_RewritesOnlyStatus ==
    /\ [](\A id \in FirmwareIds, failAt \in FailPoints :
            /\ RewriteOutcome(verifyFirmware(dataKeys, dataFirmware, id, failAt),
                              id, "verified", failAt)
            /\ RewriteOutcome(rejectFirmware(dataKeys, dataFirmware, id, failAt),
                              id, "rejected", failAt))
    /\ [][\A i \in 1 .. Len(invocations) :
            (At(i, "pending") /\ ~At(i, "pending")'
                /\ invocations[i].op # "uploadFirmware")
            => /\ OnlyStatusRewritten(dataKeys, dataFirmware, dataKeys',
                     dataFirmware', invocations[i].id,
                     IF invocations[i].op = "verifyFirmware"
                     THEN "verified" ELSE "rejected")
               /\ At(i, "success")'
                     => Parse(dataFirmware'[invocations[i].id]).status
                          = (IF invocations[i].op = "verifyFirmware"
                             THEN "verified" ELSE "rejected")
               /\ BytesLength(dataFirmware[invocations[i].id]) = 0
                     => At(i, "error")' /\ dataFirmware' = dataFirmware]_vars

\* a firmware stored without status and with security level 0 has been
\* verified: its blob holds the new status and still level 0; and an action
\* on a firmware whose blob had gone has ended in an error
C16_Witness ==
    /\ \E i \in 1 .. Len(invocations) :
          /\ invocations[i].op = "verifyFirmware"
          /\ invocations[i].pc = "success"
          /\ invocations[i].id = "fw2"
          /\ Parse(dataFirmware["fw2"]).status = "verified"
          /\ Parse(dataFirmware["fw2"]).securityLevel = 0
    /\ \E j \in 1 .. Len(invocations) :
          /\ invocations[j].op \in {"verifyFirmware", "rejectFirmware"}
          /\ invocations[j].id = "fw1"
          /\ invocations[j].pc = "dismissed"
          /\ BytesLength(dataFirmware["fw1"]) = 0

\* ---------------------------------------------------------------- C17
\* request ids first and second are distinct, both registered for
\* verifyCommand, and both map to the message m
TwoRequestsFor(first, second, m) ==
    /\ first # second
    /\ m # 0
    /\ Registered(first, "verifyCommand")
    /\ Registered(second, "verifyCommand")
    /\ requestToMessageId[first] = m
    /\ requestToMessageId[second] = m

\* the callback of request id r as the oracle delivers it: the attested
\* cleartext with a valid proof
Delivered(r) == verifyCommand(World, r, Attested(r), "kms")

\* C17 as stated: two request ids are registered for one message and the
\* callback of the first has just verified it; the callback of the second,
\* with a valid proof, is not rejected
C17_SecondCallbackAccepted ==
    \A first, second \in RequestIds :
        ( /\ TwoRequestsFor(first, second, requestToMessageId[first])
          /\ lastCall.op = "verifyCommand"
          /\ lastCall.arg = first
          /\ decryptedMessages[requestToMessageId[first]].isVerified )
        => /\ checkSignatures(World, second, Attested(second), "kms")
           /\ Delivered(second).result = "ok"

\* C17, amended: when two distinct request ids are registered for the same
\* message and the message is marked verified, the callback of the second
\* request id is rejected with "Already verified" although its proof is
\* valid, and changes nothing: the guard is on the message, not on the
\* request id.
C17_SecondCallbackRejected ==
    \A first, second \in RequestIds :
        ( /\ TwoRequestsFor(first, second, requestToMessageId[first])
          /\ decryptedMessages[requestToMessageId[first]].isVerified )
        => /\ checkSignatures(World, second, Attested(second), "kms")
           /\ Delivered(second) = [result |-> "Already verified", world |-> World]

\* message 1 was submitted, two requests were registered for it, and the
\* callback of one of them has just verified it
C17_Witness ==
    \E first, second \in RequestIds :
        /\ TwoRequestsFor(first, second, 1)
        /\ RequestedAfterSubmit(first, 1)
        /\ RequestedAfterSubmit(second, 1)
        /\ lastCall.op = "verifyCommand"
        /\ lastCall.arg = first
        /\ decryptedMessages[1].isVerified
        /\ Delivered(second).result = "Already verified"

\* ---------------------------------------------------------------- C18
\* the outcomes of every call other than verifyCommand that can be made in
\* the current state
OtherCallOutcomes ==
    { submitEncryptedCanMessage(World, Encrypt(t[1]), Encrypt(t[2]),
                                Encrypt(t[3]), blockTimestamp + 1) :
        t \in IF messageCount < MaxMessages THEN SubmittedTriples ELSE {} }
      \cup { requestCommandVerification(World, m) : m \in MessageIds }
      \cup { requestEcuStatsDecryption(World, e) : e \in EcuIds }
      \cup { decryptEcuStats(World, x[1], x[2], x[3]) :
               x \in RequestIds \X Payloads \X Proofs }

\* C18: verifyCommand is the only operation that sets isVerified to true.  No
\* submit, request, aggregate request or aggregate callback, whatever its
\* arguments, leaves a message verified that was not; a message becomes
\* verified only in the step of a verifyCommand callback whose request id
\* maps to it; and so a message whose callback was never delivered (no
\* MessageVerified event) is unverified in every state.
C18_OnlyVerifyCommandVerifies ==
    /\ [](\A out \in OtherCallOutcomes : \A m \in Keys :
            out.world.decryptedMessages[m].isVerified
                => decryptedMessages[m].isVerified)
    /\ [][\A m \in Keys :
            (~decryptedMessages[m].isVerified /\ decryptedMessages'[m].isVerified)
                => /\ VerifiedNow(m)
                   /\ lastCall'.cleartexts = Attested(lastCall'.arg)
                   /\ EventCount(m, "MessageVerified")' =
                          EventCount(m, "MessageVerified") + 1]_vars
    /\ [](\A m \in Keys :
            EventCount(m, "MessageVerified") = 0
                => ~decryptedMessages[m].isVerified)

\* message 1 was submitted and its verification requested, no callback came
\* for it; meanwhile message 2 was submitted, requested again and verified
C18_Witness ==
    /\ \E r \in RequestIds : RequestedAfterSubmit(r, 1)
    /\ EventCount(1, "MessageVerified") = 0
    /\ ~decryptedMessages[1].isVerified
    /\ lastCall.op = "verifyCommand"
    /\ requestToMessageId[lastCall.arg] = 2
    /\ decryptedMessages[2].isVerified

\* ---------------------------------------------------------------- C19
\* C19: with request ids numbered by the oracle (each issued once) and every
\* callback delivered in the end with a valid proof, every submitted message
\* for which requestCommandVerification was called after its submission is
\* eventually verified, and a submitted message that is verified stays
\* verified.  The step of a callback that goes through leaves its message
\* verified.
C19_EventuallyVerified ==
    /\ \A m \in 1 .. MaxMessages :
          (\E r \in RequestIds : RequestedAfterSubmit(r, m))
              ~> decryptedMessages[m].isVerified
    /\ [][\A r \in RequestIds :
            (lastCall'.op = "verifyCommand" /\ lastCall'.arg = r /\ World' # World)
                => decryptedMessages'[requestToMessageId[r]].isVerified]_vars
    /\ [][\A m \in 1 .. MaxMessages :
            (m <= messageCount /\ decryptedMessages[m].isVerified)
                => decryptedMessages'[m].isVerified]_vars

\* message 1 was requested after its submission and the delivery of that
\* request has verified it with the cleartext the oracle attests
C19_Witness ==
    /\ lastCall.op = "verifyCommand"
    /\ RequestedAfterSubmit(lastCall.arg, 1)
    /\ lastCall.cleartexts = Attested(lastCall.arg)
    /\ decryptedMessages[1].isVerified
    /\ decryptedMessages[1].command # ""

\* ---------------------------------------------------------------- C20
\* the outcomes of every callback and every submit that can be made in the
\* current state
NonRequestOutcomes ==
    { verifyCommand(World, x[1], x[2], x[3]) :
        x \in RequestIds \X Payloads \X Proofs }
      \cup { decryptEcuStats(World, x[1], x[2], x[3]) :
               x \in RequestIds \X Payloads \X Proofs }
      \cup { submitEncryptedCanMessage(World, Encrypt(t[1]), Encrypt(t[2]),
                                       Encrypt(t[3]), blockTimestamp + 1) :
               t \in IF messageCount < MaxMessages THEN SubmittedTriples ELSE {} }

\* C20: a request-id mapping, once written, is never removed or cleared.
\* verifyCommand and decryptEcuStats (and submit) leave requestToMessageId as
\* it was whether they succeed or fail; the mapping of a request id the
\* oracle has issued never changes; and every step that changes the map is a
\* requestCommandVerification or requestEcuStatsDecryption call that writes
\* the one entry of the request id just issued.
C20_MappingNeverCleared ==
    /\ [](\A out \in NonRequestOutcomes :
            out.world.requestToMessageId = requestToMessageId)
    /\ [][\A r \in RequestIds :
            r < Len(decryptionRequests)
                => requestToMessageId'[r] = requestToMessageId[r]]_vars
    /\ [][requestToMessageId' # requestToMessageId
            => /\ lastCall'.op \in { "requestCommandVerification",
                                     "requestEcuStatsDecryption" }
               /\ Len(decryptionRequests') = Len(decryptionRequests) + 1
               /\ \A r \in RequestIds \ {Len(decryptionRequests)} :
                     requestToMessageId'[r] = requestToMessageId[r]]_vars

\* both callbacks have gone through and the mappings of their request ids
\* are still there: request 0 to message 1, request 1 to the hash of an ECU
C20_Witness ==
    /\ lastCall.op = "decryptEcuStats"
    /\ lastCall.arg = 1
    /\ requestToMessageId[0] = 1
    /\ decryptedMessages[1].isVerified
    /\ requestToMessageId[1] \in { bytes32ToUint(keccak256(e)) : e \in EcuIds }

\* ---------------------------------------------------------------- C21
\* the outcomes of every call of every operation that can be made in the
\* current state
EveryCallOutcome == CallOutcomes \cup OtherCallOutcomes

\* C21: an encrypted message record is immutable once written.  The record
\* submit stored under id m (the id, the three handles, the timestamp) is
\* left as it is by every call of every operation in every reached state,
\* and by every step.
C21_EncryptedImmutable ==
    /\ [](\A out \in EveryCallOutcome : \A m \in 1 .. messageCount :
            out.world.encryptedMessages[m] = encryptedMessages[m])
    /\ [][\A m \in 1 .. messageCount :
            encryptedMessages'[m] = encryptedMessages[m]]_vars
    /\ [](\A m \in 1 .. messageCount :
            /\ encryptedMessages[m].id = m
            /\ isInitialized(encryptedMessages[m].encryptedCommand)
            /\ isInitialized(encryptedMessages[m].encryptedSourceEcu)
            /\ isInitialized(encryptedMessages[m].encryptedTargetEcu)
            /\ encryptedMessages[m].timestamp = m)

\* two messages are stored, the first was requested and verified, and an
\* aggregate callback has gone through since
C21_Witness ==
    /\ messageCount = 2
    /\ lastCall.op = "decryptEcuStats"
    /\ decryptedMessages[1].isVerified
    /\ encryptedMessages[1].timestamp = 1
    /\ encryptedMessages[2].timestamp = 2

\* ---------------------------------------------------------------- C22
\* the message ids whose decrypted record is verified with source ECU e
VerifiedRecordsFrom(e) ==
    { m \in Keys :
        decryptedMessages[m].isVerified /\ decryptedMessages[m].sourceEcu = e }

\* C22: in every reachable state and for every ECU name e, the plaintext of
\* the aggregate counter of e is the number of message ids whose decrypted
\* record is verified with sourceEcu = e, and the counter is absent exactly
\* when that number is 0.
C22_CounterCountsVerified ==
    \A e \in EcuIds :
        LET n == Cardinality(VerifiedRecordsFrom(e))
        IN  IF n = 0
            THEN ~isInitialized(encryptedEcuStats[e])
            ELSE /\ isInitialized(encryptedEcuStats[e])
                 /\ encryptedEcuStats[e].val = n

\* ---------------------------------------------------------------- C23
\* the ECU name e is in the registry
InEcuList(e) == \E i \in 1 .. Len(ecuList) : ecuList[i] = e

\* C23: in every reachable state an ECU name is in ecuList exactly when its
\* aggregate counter is initialised; and for every request id registered by
\* a requestEcuStatsDecryption that went through, getEcuFromHash finds a
\* registry name for the stored hash, so decryptEcuStats never fails with
\* "ECU not found", whatever the cleartext and the proof, and goes through
\* when the oracle delivers it.
C23_RegistryMatchesCounters ==
    /\ \A e \in EcuIds : InEcuList(e) <=> isInitialized(encryptedEcuStats[e])
    /\ \A r \in RequestIds :
          Registered(r, "decryptEcuStats")
            => /\ \E i \in EcuIndexOfHash(World, requestToMessageId[r]) :
                     isInitialized(encryptedEcuStats[ecuList[i]])
               /\ \A cleartexts \in Payloads, proof \in Proofs :
                     decryptEcuStats(World, r, cleartexts, proof).result
                         # "ECU not found"
               /\ decryptEcuStats(World, r, Attested(r), "kms").result = "ok"

\* the counter of ECU_A was requested, ECU_B has no counter and is not in the
\* registry, and the callback of the request resolves the hash
C23_Witness ==
    \E r \in RequestIds :
        /\ Registered(r, "decryptEcuStats")
        /\ requestToMessageId[r] = bytes32ToUint(keccak256("ECU_A"))
        /\ InEcuList("ECU_A")
        /\ ~InEcuList("ECU_B")
        /\ ~isInitialized(encryptedEcuStats["ECU_B"])
        /\ decryptEcuStats(World, r, Attested(r), "kms").result = "ok"

\* ---------------------------------------------------------------- C24
\* C24: the two decryption paths do not interfere through the shared request
\* map.  For a request id registered by requestEcuStatsDecryption, whose
\* stored value is the hash of an ECU name, verifyCommand fails and changes
\* nothing whatever the cleartext and the proof, and no step of a
\* verifyCommand that goes through carries such a request id.
C24_PathsDoNotInterfere ==
    /\ [](\A r \in RequestIds :
            Registered(r, "decryptEcuStats")
              => \A cleartexts \in Payloads, proof \in Proofs :
                   LET out == verifyCommand(World, r, cleartexts, proof)
                   IN  /\ out.result # "ok"
                       /\ out.world = World)
    /\ [][(lastCall'.op = "verifyCommand" /\ World' # World)
            => Registered(lastCall'.arg, "verifyCommand")]_vars

\* an aggregate request is registered; handed to verifyCommand with the
\* payload the oracle attests for it and a valid proof, it passes the guards
\* and the proof check and fails in the decoding of the three strings
C24_Witness ==
    \E r \in RequestIds :
        /\ Registered(r, "decryptEcuStats")
        /\ requestToMessageId[r] \notin MessageIds
        /\ checkSignatures(World, r, Attested(r), "kms")
        /\ verifyCommand(World, r, Attested(r), "kms").result = "abi.decode"

\* ---------------------------------------------------------------- C25
\* the longest list of safe commands a caller passes
MaxSafe == 2
\* the commands a caller may list as safe
Commands == {"SET_TORQUE", "BRAKE", ""}
\* the lists a caller passes: up to MaxSafe commands, none of them twice
SafeLists ==
    UNION { { l \in [1 .. n -> Commands] :
                \A i, j \in 1 .. n : l[i] = l[j] => i = j } : n \in 0 .. MaxSafe }

\* the command c is an entry of the list safe
Listed(c, safe) == \E j \in 1 .. Len(safe) : safe[j] = c

\* C25: detectAnomalousCommands(e, safe) returns true exactly when some
\* message id in 1..messageCount is verified, has sourceEcu e and a command
\* equal to no entry of safe; so it returns false when e has no verified
\* message and true for any verified message of e when safe is empty.
C25_DetectAnomalous ==
    LET w == World
    IN  \A e \in EcuIds :
          LET from == VerifiedFrom(e)
          IN  \A safe \in SafeLists :
                LET found == detectAnomalousCommands(w, e, safe)
                IN  /\ found <=> \E m \in from :
                                    ~Listed(decryptedMessages[m].command, safe)
                    /\ from = {} => ~found
                    /\ (from # {} /\ safe = << >>) => found

\* two verified messages of different ECUs: the scan for the second one's
\* ECU answers true or false by the list, and the scan for a third ECU
\* answers false
C25_Witness ==
    /\ VerifiedFrom("ECU_A") = {1}
    /\ VerifiedFrom("ECU_B") = {2}
    /\ detectAnomalousCommands(World, "ECU_B", << "SET_TORQUE" >>)
    /\ ~detectAnomalousCommands(World, "ECU_B", << "SET_TORQUE", "BRAKE" >>)
    /\ ~detectAnomalousCommands(World, "", << >>)

\* ---------------------------------------------------------------- C26
\* the ids listed in the stored index
ListedIds ==
    IF BytesLength(dataKeys) > 0 /\ ~ParseThrows(dataKeys)
    THEN { ParseKeys(dataKeys)[i] : i \in 1 .. Len(ParseKeys(dataKeys)) }
    ELSE {}

\* the ids that have a stored blob
StoredIds == { id \in FirmwareIds : BytesLength(dataFirmware[id]) > 0 }

\* the ids of the uploads still in their try block
UploadingIds ==
    { clients[c].action.firmwareId :
        c \in { d \in Clients : /\ clients[d].action.op = "uploadFirmware"
                                /\ clients[d].action.pc # "reload" } }

\* C26: in the shared store, under any interleaving of the uploads,
\* verifications and rejections of the sessions, failed calls included,
\* every id listed in firmware_keys has a stored firmware_<id> blob; every
\* write of the index lists only ids whose blob was stored before; and a
\* call that throws, the index write included, takes nothing back: the blob
\* stays stored, unreferenced.
C26_ListedIdsAreStored ==
    /\ [](ListedIds \subseteq StoredIds)
    /\ [][dataKeys' # dataKeys => ListedIds' \subseteq StoredIds]_vars
    /\ [][StoredIds \subseteq StoredIds']_vars
    /\ [][\A c \in Clients :
            (clients[c].action.pc = "setKeys" /\ clients'[c].action = NoAction)
              => /\ dataKeys' = dataKeys
                 /\ dataFirmware' = dataFirmware
                 /\ clients[c].action.firmwareId \in StoredIds']_vars

\* the index write of an upload failed and its blob is left stored and
\* unreferenced, beside a firmware that is listed and was verified
C26_Witness ==
    \E id \in StoredIds \ (ListedIds \cup UploadingIds) :
    \E other \in ListedIds :
        /\ other # id
        /\ Parse(dataFirmware[other]).status = "verified"
        /\ \A c \in Clients : clients[c].action = NoAction

\* ---------------------------------------------------------------- C27
\* C27: no upload is lost.  After any interleaving of uploads by several
\* sessions, firmware_keys lists the id of every upload that ended with the
\* success status, and no write of the index drops an id that was listed.
C27_NoUploadLost ==
    /\ [](\A c \in Clients : clients[c].uploaded \subseteq ListedIds)
    /\ [][ListedIds \subseteq ListedIds']_vars

\* ---------------------------------------------------------------- C28
\* the status stored for firmware id, "" if there is no readable record
StoredStatus(id) ==
    IF BytesLength(dataFirmware[id]) > 0 /\ ~ParseThrows(dataFirmware[id])
    THEN Parse(dataFirmware[id]).status ELSE ""

\* C28: a stored record's status only moves from "pending" to "verified" or
\* "rejected" and is final afterwards: no verifyFirmware or rejectFirmware
\* action that the page of any session offers changes a record that is
\* already verified or rejected.
C28_StatusIsFinal ==
    [][\A id \in FirmwareIds :
         /\ StoredStatus(id) \in {"verified", "rejected"}
               => dataFirmware'[id] = dataFirmware[id]
         /\ StoredStatus(id)' # StoredStatus(id)
               => /\ StoredStatus(id) \in {"", "pending"}
                  /\ StoredStatus(id) = "" => StoredStatus(id)' = "pending"]_vars

\* ---------------------------------------------------------------- C29
\* a loadFirmwares call of session c is in progress: the one of its Refresh
\* button, or the reload that follows an upload, verify or reject
Loading(c) ==
    \/ clients[c].refresh = "running"
    \/ clients[c].action.pc = "reload"

\* C29: the isRefreshing flag of a session is true exactly while some
\* loadFirmwares call of the session is in progress, on every exit path of
\* the load and also when a refresh and the reload that follows an upload,
\* verify or reject overlap.
C29_FlagTracksLoads ==
    \A c \in Clients : clients[c].isRefreshing <=> Loading(c)

\* ---------------------------------------------------------------- C30
\* invocation i has set the banner to pending and its own timer has not fired
BannerOwed(i) == At(i, "pending") \/ At(i, "success") \/ At(i, "error")

\* C30: the banner of an action is not hidden by another action: from the
\* step in which an action sets the banner to pending until its own dismissal
\* timer fires, the banner is visible and shows that action's status, also
\* when actions follow each other within the dismissal delay.
C30_BannerNotHidden ==
    \A i \in 1 .. MaxInvocations :
        BannerOwed(i) => /\ transactionStatus.visible
                         /\ transactionStatus.status = invocations[i].pc
====
